---- MODULE Spec2Model ----
(***************************************************************************)
(* Model of the ESLint rule array-index-check-undefined                    *)
(* (src/src/rules/array-index-check-undefined/index.ts).                   *)
(*                                                                         *)
(* A file is a syntax tree.  A node of the tree is the record              *)
(*   [type, name, computed, optional, lit, kids]                           *)
(* and a node reference is the path of child positions from the root, so   *)
(* that reference equality (===) of the rule is equality of paths and      *)
(* node.parent is the path without its last position.  Children are kept   *)
(* in visitor-key order: MemberExpression <<object, property>>,            *)
(* CallExpression <<callee, arguments...>>, IfStatement <<test,            *)
(* consequent [, alternate]>>, ForStatement <<init, test, update, body>>,  *)
(* VariableDeclarator <<id, init>>, Binary/Logical/Assignment <<left,      *)
(* right>>, ConditionalExpression <<test, consequent, alternate>>,         *)
(* FunctionDeclaration <<id, param, body>>, ArrowFunctionExpression        *)
(* <<param, body>>.                                                        *)
(***************************************************************************)
EXTENDS Integers, Sequences, FiniteSets, TLC

VARIABLES
    ast,        \* the syntax tree of the file being linted
    host,       \* what the host's parser gives: "absent", "throws", "typed"
                \* or "faulty" (typed, but the checker's queries throw)
    services,   \* parser services: "none" (null), "typed" or "faulty"
    cur,        \* the node the traversal is at (a path), or Done
    phase,      \* which listener of the node runs next, or "crashed" when an
                \* exception has left a listener
    arrayIndexDeclarations,  \* the tracked VariableDeclarator nodes
    reports,    \* the diagnostics reported so far, in order
    linted,     \* how many files this rule context slot has been created for
    other,      \* the rule context of another file, linted by the same process
    rule,       \* the rule that is linting the file
    filename,   \* context.filename
    options     \* the options of the rule (options[0]), <<>> when it has none

vars == <<ast, host, services, cur, phase, arrayIndexDeclarations, reports,
          linted, other, rule, filename, options>>

-----------------------------------------------------------------------------
(* Syntax tree constructors *)

Mk(type, name, computed, optional, lit, kids) ==
    [type |-> type, name |-> name, computed |-> computed,
     optional |-> optional, lit |-> lit, kids |-> kids]

Identifier(n) == Mk("Identifier", n, FALSE, FALSE, "", <<>>)
NumLit(n) == Mk("Literal", n, FALSE, FALSE, "number", <<>>)
StrLit(n) == Mk("Literal", n, FALSE, FALSE, "string", <<>>)
NullLit == Mk("Literal", "null", FALSE, FALSE, "null", <<>>)
Dot(obj, p) == Mk("MemberExpression", "", FALSE, FALSE, "", <<obj, Identifier(p)>>)
OptDot(obj, p) == Mk("MemberExpression", "", FALSE, TRUE, "", <<obj, Identifier(p)>>)
Index(obj, key) == Mk("MemberExpression", "", TRUE, FALSE, "", <<obj, key>>)
Call(callee, args) == Mk("CallExpression", "", FALSE, FALSE, "", <<callee>> \o args)
OptCall(callee, args) == Mk("CallExpression", "", FALSE, TRUE, "", <<callee>> \o args)
Chain(e) == Mk("ChainExpression", "", FALSE, FALSE, "", <<e>>)
Binary(op, l, r) == Mk("BinaryExpression", op, FALSE, FALSE, "", <<l, r>>)
Logical(op, l, r) == Mk("LogicalExpression", op, FALSE, FALSE, "", <<l, r>>)
Unary(op, a) == Mk("UnaryExpression", op, FALSE, FALSE, "", <<a>>)
Assign(l, r) == Mk("AssignmentExpression", "=", FALSE, FALSE, "", <<l, r>>)
Cond(t, c, a) == Mk("ConditionalExpression", "", FALSE, FALSE, "", <<t, c, a>>)
Arrow(p, body) == Mk("ArrowFunctionExpression", "", FALSE, FALSE, "", <<Identifier(p), body>>)
ExprStmt(e) == Mk("ExpressionStatement", "", FALSE, FALSE, "", <<e>>)
Block(stmts) == Mk("BlockStatement", "", FALSE, FALSE, "", stmts)
If(t, c) == Mk("IfStatement", "", FALSE, FALSE, "", <<t, c>>)
IfElse(t, c, a) == Mk("IfStatement", "", FALSE, FALSE, "", <<t, c, a>>)
For(i, t, u, b) == Mk("ForStatement", "", FALSE, FALSE, "", <<i, t, u, b>>)
Return(e) == Mk("ReturnStatement", "", FALSE, FALSE, "", <<e>>)
ReturnVoid == Mk("ReturnStatement", "", FALSE, FALSE, "", <<>>)
Throw(e) == Mk("ThrowStatement", "", FALSE, FALSE, "", <<e>>)
Declarator(id, init) == Mk("VariableDeclarator", "", FALSE, FALSE, "", <<Identifier(id), init>>)
Decl(kind, id, init) == Mk("VariableDeclaration", kind, FALSE, FALSE, "", <<Declarator(id, init)>>)
Const(id, init) == Decl("const", id, init)
FunctionDecl(f, p, body) ==
    Mk("FunctionDeclaration", "", FALSE, FALSE, "", <<Identifier(f), Identifier(p), body>>)
Program(stmts) == Mk("Program", "", FALSE, FALSE, "", stmts)

-----------------------------------------------------------------------------
(* Node references *)

Root == <<>>
NoNode == <<0>>      \* null / undefined node reference
null == ""           \* null key: every test of a key in the rule is a truthiness test

RECURSIVE NodeAt(_, _)
NodeAt(t, p) == IF p = <<>> THEN t ELSE NodeAt(t.kids[Head(p)], Tail(p))

N(p) == NodeAt(ast, p)
Type(p) == N(p).type
Name(p) == N(p).name
NumKids(p) == Len(N(p).kids)
Kid(p, i) == p \o <<i>>
HasParent(p) == p # Root /\ p # NoNode
Parent(p) == IF HasParent(p) THEN SubSeq(p, 1, Len(p) - 1) ELSE NoNode
IndexInParent(p) == p[Len(p)]

Object(p) == Kid(p, 1)       \* MemberExpression.object
Property(p) == Kid(p, 2)     \* MemberExpression.property
Callee(p) == Kid(p, 1)       \* CallExpression.callee
Left(p) == Kid(p, 1)
Right(p) == Kid(p, 2)
Argument(p) == Kid(p, 1)     \* UnaryExpression.argument
Test(p) == IF Type(p) = "ForStatement" THEN Kid(p, 2) ELSE Kid(p, 1)
Consequent(p) == Kid(p, 2)
DeclId(p) == Kid(p, 1)       \* VariableDeclarator.id
DeclInit(p) == Kid(p, 2)     \* VariableDeclarator.init

\* the proper ancestors of a node
AncestorSet(p) == {SubSeq(p, 1, j) : j \in 0..(Len(p) - 1)}

RECURSIVE PathsOf(_, _)
PathsOf(t, p) ==
    {p} \cup UNION {PathsOf(t.kids[i], p \o <<i>>) : i \in 1..Len(t.kids)}

Nodes == PathsOf(ast, Root)

-----------------------------------------------------------------------------
(* Indexed-access classifier and access identity *)

\* variant: a binary-expression key is not taken for a dynamic key
isArrayIndexAccess_NoBinaryKey(node) ==
    IF ~N(node).computed THEN FALSE
    ELSE LET prop == N(Property(node))
         IN  \/ prop.type = "Literal" /\ prop.lit = "number"
             \/ prop.type = "Identifier"

\* variant: every computed access is taken for a dynamic-key access
isArrayIndexAccess_AnyComputed(node) == N(node).computed

isArrayIndexAccess(node) ==
    IF ~N(node).computed THEN FALSE
    ELSE LET prop == N(Property(node))
             isNumericLiteral == prop.type = "Literal" /\ prop.lit = "number"
             isIdentifier == prop.type = "Identifier"
             isBinaryExpression == prop.type = "BinaryExpression"
         IN  isNumericLiteral \/ isIdentifier \/ isBinaryExpression

\* variant: only a plain identifier has an object key
getObjectKey_IdentifierOnly(node) ==
    IF Type(node) = "Identifier" THEN Name(node) ELSE null

RECURSIVE getObjectKey(_)
getObjectKey(node) ==
    IF Type(node) = "Identifier" THEN Name(node)
    ELSE IF Type(node) = "MemberExpression" /\ ~N(node).computed
    THEN LET objKey == getObjectKey(Object(node))
         IN  IF objKey # null /\ Type(Property(node)) = "Identifier"
             THEN objKey \o "." \o Name(Property(node))
             ELSE null
    ELSE null

\* the value of a numeric literal written as decimal digits with an optional
\* exponent: a natural number, or Infinity once it is beyond the largest
\* double (about 1.8e308)
IndexOfE(raw) ==
    IF \E i \in 1..Len(raw) : SubSeq(raw, i, i) = "e"
    THEN CHOOSE i \in 1..Len(raw) : SubSeq(raw, i, i) = "e"
    ELSE Len(raw) + 1

DigitValue(c) == CHOOSE d \in 0..9 : SubSeq("0123456789", d + 1, d + 1) = c

RECURSIVE ParseDigits(_)
ParseDigits(digits) ==
    IF digits = "" THEN 0
    ELSE 10 * ParseDigits(SubSeq(digits, 1, Len(digits) - 1))
            + DigitValue(SubSeq(digits, Len(digits), Len(digits)))

RECURSIVE Pow10(_)
Pow10(k) == IF k = 0 THEN 1 ELSE 10 * Pow10(k - 1)

LiteralValue(raw) ==
    LET mantissa == ParseDigits(SubSeq(raw, 1, IndexOfE(raw) - 1))
        exponent == ParseDigits(SubSeq(raw, IndexOfE(raw) + 1, Len(raw)))
    IN  IF mantissa > 0 /\ exponent > 308
        THEN [kind |-> "number", finite |-> FALSE, n |-> 0, text |-> ""]
        ELSE [kind |-> "number", finite |-> TRUE, n |-> mantissa * Pow10(exponent),
              text |-> ""]

\* the decimal digits of a natural number
RECURSIVE NaturalToString(_)
NaturalToString(n) ==
    IF n < 10 THEN SubSeq("0123456789", n + 1, n + 1)
    ELSE NaturalToString(n \div 10) \o SubSeq("0123456789", (n % 10) + 1, (n % 10) + 1)

\* String(value) of a number, of a string and of null
String(value) ==
    IF value.kind # "number" THEN value.text
    ELSE IF value.finite THEN NaturalToString(value.n) ELSE "Infinity"

\* Literal.value: a number for a numeric literal, else the text (null for null)
Value(literal) ==
    IF N(literal).lit = "number" THEN LiteralValue(Name(literal))
    ELSE [kind |-> N(literal).lit, finite |-> TRUE, n |-> 0, text |-> Name(literal)]

RECURSIVE getArrayIndexAccessKey(_), getMemberExpressionKey(_)
getArrayIndexAccessKey(node) ==
    IF ~isArrayIndexAccess(node) THEN null
    ELSE LET objectKey ==
                 IF Type(Object(node)) = "Identifier" THEN Name(Object(node))
                 ELSE IF Type(Object(node)) = "MemberExpression"
                 THEN getMemberExpressionKey(Object(node))
                 ELSE null
             indexKey ==
                 IF Type(Property(node)) = "Literal"
                 THEN String(Value(Property(node)))
                 ELSE IF Type(Property(node)) = "Identifier" THEN Name(Property(node))
                 ELSE null
         IN  IF objectKey = null \/ indexKey = null THEN null
             ELSE objectKey \o "[" \o indexKey \o "]"

getMemberExpressionKey(node) ==
    IF N(node).computed THEN getArrayIndexAccessKey(node)
    ELSE LET objectKey ==
                 IF Type(Object(node)) = "Identifier" THEN Name(Object(node))
                 ELSE IF Type(Object(node)) = "MemberExpression"
                 THEN getMemberExpressionKey(Object(node))
                 ELSE null
         IN  IF objectKey = null THEN null
             ELSE IF Type(Property(node)) = "Identifier"
             THEN objectKey \o "." \o Name(Property(node))
             ELSE null

isDescendant(parent, child) ==
    /\ Len(parent) < Len(child)
    /\ SubSeq(child, 1, Len(parent)) = parent

-----------------------------------------------------------------------------
(* Loop-bound narrowing *)

NoForInfo == [indexVar |-> null, arrayKey |-> null]

getForLoopArrayInfo(forStatement) ==
    LET test == Test(forStatement)
    IN  IF Type(test) # "BinaryExpression" THEN NoForInfo
        ELSE IF Name(test) # "<" /\ Name(test) # "<=" THEN NoForInfo
        ELSE IF Type(Left(test)) # "Identifier" THEN NoForInfo
        ELSE LET right == Right(test)
                 lengthExpr ==
                     IF Type(right) = "MemberExpression" THEN right
                     ELSE IF /\ Type(right) = "BinaryExpression"
                             /\ Name(right) = "-"
                             /\ Type(Left(right)) = "MemberExpression"
                     THEN Left(right)
                     ELSE NoNode
             IN  IF lengthExpr = NoNode THEN NoForInfo
                 ELSE IF \/ Type(Property(lengthExpr)) # "Identifier"
                         \/ Name(Property(lengthExpr)) # "length"
                 THEN NoForInfo
                 ELSE LET arrayKey == getObjectKey(Object(lengthExpr))
                      IN  IF arrayKey = null THEN NoForInfo
                          ELSE [indexVar |-> Name(Left(test)), arrayKey |-> arrayKey]

isInsideSafeForLoop(node) ==
    IF Type(Property(node)) # "Identifier" THEN FALSE
    ELSE LET indexVar == Name(Property(node))
             arrayKey == getObjectKey(Object(node))
         IN  IF arrayKey = null THEN FALSE
             ELSE \E current \in AncestorSet(node) :
                     /\ Type(current) = "ForStatement"
                     /\ LET forInfo == getForLoopArrayInfo(current)
                        IN  /\ forInfo # NoForInfo
                            /\ forInfo.indexVar = indexVar
                            /\ forInfo.arrayKey = arrayKey

-----------------------------------------------------------------------------
(* Guards found on the ancestor chain, whatever the subject *)

isSafeInLogicalAnd(node, expr) ==
    LET isOnRightSide == Right(expr) = node \/ isDescendant(Right(expr), node)
    IN  Name(expr) = "&&" /\ isOnRightSide

isNullishCoalescing(expr) == Name(expr) = "??"

isSafeInConditional(node, expr) ==
    LET isInTest == Kid(expr, 1) = node \/ isDescendant(Kid(expr, 1), node)
        isInConsequent == Kid(expr, 2) = node \/ isDescendant(Kid(expr, 2), node)
    IN  isInTest \/ isInConsequent

checkNodeSafety(node, current) ==
    IF Type(current) = "IfStatement" THEN TRUE
    ELSE IF Type(current) = "LogicalExpression"
    THEN isSafeInLogicalAnd(node, current) \/ isNullishCoalescing(current)
    ELSE IF Type(current) = "ConditionalExpression"
    THEN isSafeInConditional(node, current)
    ELSE FALSE

isInsideNullCheck(node) ==
    \E current \in AncestorSet(node) : checkNodeSafety(node, current)

hasOptionalChaining(node) ==
    \/ N(node).optional
    \/ \E current \in AncestorSet(node) : Type(current) = "ChainExpression"

-----------------------------------------------------------------------------
(* Nullish checks of a variable and of an access identity *)

IsEqualityOperator(op) == op \in {"!==", "!=", "===", "=="}

IsNullOrUndefined(right) ==
    LET isNullLiteral == Type(right) = "Literal" /\ N(right).lit = "null"
        isUndefinedIdentifier == Type(right) = "Identifier" /\ Name(right) = "undefined"
    IN  isNullLiteral \/ isUndefinedIdentifier

\* variant: only the inequality operators are taken for a null check
isBinaryNullCheck_InequalityOnly(expr, variableName) ==
    IF Name(expr) \notin {"!==", "!="} THEN FALSE
    ELSE IF Type(Left(expr)) # "Identifier" \/ Name(Left(expr)) # variableName THEN FALSE
    ELSE IsNullOrUndefined(Right(expr))

isBinaryNullCheck(expr, variableName) ==
    IF ~IsEqualityOperator(Name(expr)) THEN FALSE
    ELSE IF Type(Left(expr)) # "Identifier" \/ Name(Left(expr)) # variableName THEN FALSE
    ELSE IsNullOrUndefined(Right(expr))

isBinaryNullCheckForExpression(expr, expressionKey) ==
    IF ~IsEqualityOperator(Name(expr)) THEN FALSE
    ELSE IF Type(Left(expr)) # "MemberExpression" THEN FALSE
    ELSE IF getArrayIndexAccessKey(Left(expr)) # expressionKey THEN FALSE
    ELSE IsNullOrUndefined(Right(expr))

\* variant: a disjunction is no nullish check
RECURSIVE checksForNullish_NoDisjunction(_, _)
checksForNullish_NoDisjunction(test, variableName) ==
    IF Type(test) = "Identifier" /\ Name(test) = variableName THEN TRUE
    ELSE IF /\ Type(test) = "UnaryExpression" /\ Name(test) = "!"
            /\ Type(Argument(test)) = "Identifier"
            /\ Name(Argument(test)) = variableName
    THEN TRUE
    ELSE IF Type(test) = "BinaryExpression" THEN isBinaryNullCheck(test, variableName)
    ELSE IF Type(test) = "LogicalExpression" /\ Name(test) = "&&"
    THEN \/ checksForNullish_NoDisjunction(Left(test), variableName)
         \/ checksForNullish_NoDisjunction(Right(test), variableName)
    ELSE FALSE

RECURSIVE checksForNullish(_, _)
checksForNullish(test, variableName) ==
    IF Type(test) = "Identifier" /\ Name(test) = variableName THEN TRUE
    ELSE IF /\ Type(test) = "UnaryExpression" /\ Name(test) = "!"
            /\ Type(Argument(test)) = "Identifier"
            /\ Name(Argument(test)) = variableName
    THEN TRUE
    ELSE IF Type(test) = "BinaryExpression" THEN isBinaryNullCheck(test, variableName)
    ELSE IF Type(test) = "LogicalExpression" /\ Name(test) = "&&"
    THEN checksForNullish(Left(test), variableName) \/ checksForNullish(Right(test), variableName)
    ELSE IF Type(test) = "LogicalExpression" /\ Name(test) = "||"
    THEN checksForNullish(Left(test), variableName) \/ checksForNullish(Right(test), variableName)
    ELSE FALSE

RECURSIVE checksForNullishExpression(_, _)
checksForNullishExpression(test, expressionKey) ==
    IF Type(test) = "MemberExpression" THEN getArrayIndexAccessKey(test) = expressionKey
    ELSE IF Type(test) = "BinaryExpression"
    THEN isBinaryNullCheckForExpression(test, expressionKey)
    ELSE IF Type(test) = "LogicalExpression" /\ Name(test) = "&&"
    THEN \/ checksForNullishExpression(Left(test), expressionKey)
         \/ checksForNullishExpression(Right(test), expressionKey)
    ELSE FALSE

isInsideIfConsequent(node, ifStatement, variableName) ==
    IF ~checksForNullish(Test(ifStatement), variableName) THEN FALSE
    ELSE isDescendant(Consequent(ifStatement), node)

\* variant: a return is not taken for an early exit
RECURSIVE hasEarlyExit_ThrowOnly(_)
hasEarlyExit_ThrowOnly(statement) ==
    IF Type(statement) = "ThrowStatement" THEN TRUE
    ELSE IF Type(statement) = "BlockStatement"
    THEN \E i \in 1..NumKids(statement) : hasEarlyExit_ThrowOnly(Kid(statement, i))
    ELSE FALSE

RECURSIVE hasEarlyExit(_)
hasEarlyExit(statement) ==
    IF Type(statement) \in {"ThrowStatement", "ReturnStatement"} THEN TRUE
    ELSE IF Type(statement) = "BlockStatement"
    THEN \E i \in 1..NumKids(statement) : hasEarlyExit(Kid(statement, i))
    ELSE FALSE

isInsideIfConsequentExpression(node, ifStatement, expressionKey) ==
    IF ~checksForNullishExpression(Test(ifStatement), expressionKey) THEN FALSE
    ELSE isDescendant(Consequent(ifStatement), node)

isInsideLogicalAndRight(node, logicalExpr, variableName) ==
    IF Name(logicalExpr) # "&&" THEN FALSE
    ELSE IF \/ Type(Left(logicalExpr)) # "Identifier"
            \/ Name(Left(logicalExpr)) # variableName
    THEN FALSE
    ELSE isDescendant(Right(logicalExpr), node)

isInsideLogicalAndRightExpression(node, logicalExpr, expressionKey) ==
    IF Name(logicalExpr) # "&&" THEN FALSE
    ELSE IF Type(Left(logicalExpr)) # "MemberExpression" THEN FALSE
    ELSE IF getArrayIndexAccessKey(Left(logicalExpr)) # expressionKey THEN FALSE
    ELSE isDescendant(Right(logicalExpr), node)

-----------------------------------------------------------------------------
(* Narrowing by preceding sibling statements *)

findContainingStatement(node) ==
    LET cands == {s \in AncestorSet(node) \cup {node} :
                     HasParent(s) /\ Type(Parent(s)) \in {"BlockStatement", "Program"}}
    IN  IF cands = {} THEN NoNode
        ELSE CHOOSE s \in cands : \A o \in cands : Len(o) <= Len(s)

hasEarlyExitPatternForExpression(prevStatement, expressionKey) ==
    /\ Type(prevStatement) = "IfStatement"
    /\ checksForNullishExpression(Test(prevStatement), expressionKey)
    /\ hasEarlyExit(Consequent(prevStatement))

isFalsyCheckExpression(test, expressionKey) ==
    IF /\ Type(test) = "UnaryExpression" /\ Name(test) = "!"
       /\ Type(Argument(test)) = "MemberExpression"
    THEN getArrayIndexAccessKey(Argument(test)) = expressionKey
    ELSE FALSE

RECURSIVE hasAssignmentToExpression(_, _)
hasAssignmentToExpression(statement, expressionKey) ==
    IF /\ Type(statement) = "ExpressionStatement"
       /\ Type(Kid(statement, 1)) = "AssignmentExpression"
       /\ Type(Left(Kid(statement, 1))) = "MemberExpression"
    THEN getArrayIndexAccessKey(Left(Kid(statement, 1))) = expressionKey
    ELSE IF Type(statement) = "BlockStatement"
    THEN \E i \in 1..NumKids(statement) :
            hasAssignmentToExpression(Kid(statement, i), expressionKey)
    ELSE FALSE

\* variant: the consequent is not searched for the assignment
hasInitializationPatternForExpression_AnyConsequent(prevStatement, expressionKey) ==
    IF Type(prevStatement) # "IfStatement" THEN FALSE
    ELSE isFalsyCheckExpression(Test(prevStatement), expressionKey)

hasInitializationPatternForExpression(prevStatement, expressionKey) ==
    IF Type(prevStatement) # "IfStatement" THEN FALSE
    ELSE IF ~isFalsyCheckExpression(Test(prevStatement), expressionKey) THEN FALSE
    ELSE hasAssignmentToExpression(Consequent(prevStatement), expressionKey)

\* variant: the consequent is not searched for the exit
hasEarlyExitPatternForVariable_AnyConsequent(prevStatement, variableName) ==
    /\ Type(prevStatement) = "IfStatement"
    /\ checksForNullish(Test(prevStatement), variableName)

hasEarlyExitPatternForVariable(prevStatement, variableName) ==
    /\ Type(prevStatement) = "IfStatement"
    /\ checksForNullish(Test(prevStatement), variableName)
    /\ hasEarlyExit(Consequent(prevStatement))

checkPreviousIfStatementsForExpression(node, expressionKey) ==
    LET statement == findContainingStatement(node)
    IN  IF statement = NoNode THEN FALSE
        ELSE LET statementIndex == IndexInParent(statement)
             IN  \E i \in 1..(statementIndex - 1) :
                    LET prevStatement == Kid(Parent(statement), i)
                    IN  \/ hasEarlyExitPatternForExpression(prevStatement, expressionKey)
                        \/ hasInitializationPatternForExpression(prevStatement, expressionKey)

\* variant: the statements after the one of the use are looked at as well
checkPreviousIfStatementsForVariable_AnySibling(node, variableName) ==
    LET statement == findContainingStatement(node)
    IN  IF statement = NoNode THEN FALSE
        ELSE \E i \in 1..NumKids(Parent(statement)) :
                hasEarlyExitPatternForVariable(Kid(Parent(statement), i), variableName)

checkPreviousIfStatementsForVariable(node, variableName) ==
    LET statement == findContainingStatement(node)
    IN  IF statement = NoNode THEN FALSE
        ELSE LET statementIndex == IndexInParent(statement)
             IN  \E i \in 1..(statementIndex - 1) :
                    hasEarlyExitPatternForVariable(Kid(Parent(statement), i), variableName)

isInsideNullCheckedBlock(node, variableName) ==
    IF checkPreviousIfStatementsForVariable(node, variableName) THEN TRUE
    ELSE \E current \in AncestorSet(node) :
            \/ /\ Type(current) = "IfStatement"
               /\ isInsideIfConsequent(node, current, variableName)
            \/ /\ Type(current) = "LogicalExpression"
               /\ isInsideLogicalAndRight(node, current, variableName)

isInsideNullCheckedBlockExpression(node, expressionKey) ==
    IF checkPreviousIfStatementsForExpression(node, expressionKey) THEN TRUE
    ELSE \E current \in AncestorSet(node) :
            \/ /\ Type(current) = "IfStatement"
               /\ isInsideIfConsequentExpression(node, current, expressionKey)
            \/ /\ Type(current) = "LogicalExpression"
               /\ isInsideLogicalAndRightExpression(node, current, expressionKey)

isUnsafePropertyAccess(node, parent) ==
    /\ parent # NoNode
    /\ Type(parent) = "MemberExpression"
    /\ Object(parent) = node
    /\ ~hasOptionalChaining(parent)
    /\ ~isInsideNullCheck(node)

isUnsafeFunctionCall(node, parent) ==
    /\ parent # NoNode
    /\ Type(parent) = "CallExpression"
    /\ Callee(parent) = node
    /\ ~hasOptionalChaining(node)
    /\ ~isInsideNullCheck(node)

getArrayIndexVariableName(node) ==
    IF HasParent(node) /\ Type(Parent(node)) = "VariableDeclarator"
    THEN LET declarator == Parent(node)
         IN  IF Type(DeclId(declarator)) = "Identifier" /\ DeclInit(declarator) = node
             THEN Name(DeclId(declarator))
             ELSE null
    ELSE null

-----------------------------------------------------------------------------
(* Type-based exemption oracle.  A type is [kind, parts]: parts holds the  *)
(* members of a union and the constraint of a type parameter.              *)


Ty(kind, name, parts) == [kind |-> kind, name |-> name, parts |-> parts]
AnyType == Ty("any", "", <<>>)
NumberType == Ty("number", "", <<>>)
StringType == Ty("string", "", <<>>)
ArrayType == Ty("array", "", <<>>)
TupleType == Ty("tuple", "", <<>>)
ObjectType == Ty("object", "", <<>>)
StringLiteralType(v) == Ty("strlit", v, <<>>)
NumberLiteralType(v) == Ty("numlit", v, <<>>)
EnumMember(m) == Ty("enumlit", m, <<>>)
FormatEnum == Ty("enum", "Format", <<EnumMember("A"), EnumMember("B")>>)
NumericEnumMember(m) == Ty("numenumlit", m, <<>>)
StatusEnum == Ty("enum", "Status", <<NumericEnumMember("0"), NumericEnumMember("1")>>)
KeyofUnion == Ty("union", "", <<StringLiteralType("CONTAINER"), StringLiteralType("USER")>>)
TypeParameter(constraint) == Ty("typeparam", "T", <<constraint>>)

\* the static type the checker gives an identifier of the file, by name
TypeEnv(name) ==
    CASE name \in {"i", "j"} -> NumberType
      [] name \in {"arr", "m", "routes"} -> ArrayType
      [] name = "tuple" -> TupleType
      [] name = "key" -> FormatEnum
      [] name = "fmt" -> EnumMember("A")
      [] name = "status" -> StatusEnum
      [] name = "active" -> NumericEnumMember("1")
      [] name = "k" -> TypeParameter(KeyofUnion)
      [] name = "lit" -> KeyofUnion
      [] name = "g" -> TypeParameter(StringType)
      [] name = "s" -> StringType
      [] name \in {"map", "payload", "obj"} -> ObjectType
      [] OTHER -> AnyType

getTypeAtLocation(expr) ==
    IF Type(expr) = "Identifier" THEN TypeEnv(Name(expr))
    ELSE IF Type(expr) = "Literal" /\ N(expr).lit = "number" THEN NumberLiteralType(Name(expr))
    ELSE IF Type(expr) = "Literal" /\ N(expr).lit = "string" THEN StringLiteralType(Name(expr))
    ELSE AnyType

HasEnumLiteralFlag(type) == type.kind \in {"enumlit", "numenumlit", "enum"}
isUnion(type) == type.kind \in {"union", "enum"}
isNumberLiteral(type) == type.kind \in {"numlit", "numenumlit"}
isStringLiteral(type) == type.kind \in {"strlit", "enumlit"}

isEnumType(type) ==
    IF HasEnumLiteralFlag(type) THEN TRUE
    ELSE IF isUnion(type)
    THEN \A i \in 1..Len(type.parts) : HasEnumLiteralFlag(type.parts[i])
    ELSE FALSE

\* variant: a type parameter has no constraint to fall back on
getBaseConstraintOfType_None(type) == type

getBaseConstraintOfType(type) ==
    IF type.kind = "typeparam" THEN type.parts[1] ELSE type

\* variant: the exempting rules come before the array and number checks
RECURSIVE isTypeSafeIndex_ExemptFirst(_, _)
isTypeSafeIndex_ExemptFirst(indexType, objectType) ==
    IF isEnumType(indexType) THEN TRUE
    ELSE IF /\ isUnion(indexType)
            /\ \A i \in 1..Len(indexType.parts) :
                  \/ isStringLiteral(indexType.parts[i])
                  \/ isNumberLiteral(indexType.parts[i])
                  \/ isEnumType(indexType.parts[i])
    THEN TRUE
    ELSE IF isStringLiteral(indexType) THEN TRUE
    ELSE IF indexType.kind = "number" THEN FALSE
    ELSE IF isNumberLiteral(indexType) THEN FALSE
    ELSE IF objectType.kind \in {"array", "tuple"} THEN FALSE
    ELSE IF getBaseConstraintOfType(indexType) # indexType
    THEN isTypeSafeIndex_ExemptFirst(getBaseConstraintOfType(indexType), objectType)
    ELSE FALSE

RECURSIVE isTypeSafeIndex(_, _)
isTypeSafeIndex(indexType, objectType) ==
    IF indexType.kind = "number" THEN FALSE
    ELSE IF isNumberLiteral(indexType) THEN FALSE
    ELSE IF objectType.kind \in {"array", "tuple"} THEN FALSE
    ELSE IF isEnumType(indexType) THEN TRUE
    ELSE IF /\ isUnion(indexType)
            /\ \A i \in 1..Len(indexType.parts) :
                  \/ isStringLiteral(indexType.parts[i])
                  \/ isNumberLiteral(indexType.parts[i])
                  \/ isEnumType(indexType.parts[i])
    THEN TRUE
    ELSE IF isStringLiteral(indexType) THEN TRUE
    ELSE IF getBaseConstraintOfType(indexType) # indexType
    THEN isTypeSafeIndex(getBaseConstraintOfType(indexType), objectType)
    ELSE FALSE

\* the try block of isSafeKeyAccess: its result, or "throw" when a query of
\* the checker throws
checkTypeSafeIndex(node, svc) ==
    IF svc = "faulty" THEN "throw"
    ELSE IF isTypeSafeIndex(getTypeAtLocation(Property(node)),
                            getTypeAtLocation(Object(node)))
    THEN "true" ELSE "false"

\* variant: no catch around the queries
isSafeKeyAccessOutcome_NoCatch(node, svc) ==
    IF svc = "none" THEN "false"
    ELSE IF ~N(node).computed THEN "false"
    ELSE IF Type(Property(node)) # "Identifier" THEN "false"
    ELSE checkTypeSafeIndex(node, svc)

\* how a call of isSafeKeyAccess ends: "true", "false", or "throw" when an
\* exception leaves it
isSafeKeyAccessOutcome(node, svc) ==
    IF svc = "none" THEN "false"
    ELSE IF ~N(node).computed THEN "false"
    ELSE IF Type(Property(node)) # "Identifier" THEN "false"
    ELSE IF checkTypeSafeIndex(node, svc) = "throw" THEN "false"
    ELSE checkTypeSafeIndex(node, svc)

isSafeKeyAccess(node, svc) == isSafeKeyAccessOutcome(node, svc) = "true"

\* ESLintUtils.getParserServices(context): the services, or "throw"
getParserServices(h) == IF h = "throws" THEN "throw" ELSE h

\* the services create() ends up with
createServices(h) ==
    IF getParserServices(h) = "throw" THEN "none"
    ELSE IF getParserServices(h) \in {"typed", "faulty"} THEN getParserServices(h)
    ELSE "none"

-----------------------------------------------------------------------------
(* Scope-aware binding tracker *)

IsScopeNode(p) ==
    Type(p) \in {"Program", "BlockStatement", "ForStatement",
                 "FunctionDeclaration", "ArrowFunctionExpression"}

\* the declarators of a VariableDeclaration node that declare name
DeclaratorsOf(decl, name) ==
    {Kid(decl, i) : i \in {j \in 1..NumKids(decl) :
        \/ /\ Type(DeclId(Kid(decl, j))) = "Identifier"
           /\ Name(DeclId(Kid(decl, j))) = name
        \/ /\ Type(DeclId(Kid(decl, j))) = "ObjectPattern"
           /\ \E k \in 1..NumKids(DeclId(Kid(decl, j))) :
                 Name(Kid(DeclId(Kid(decl, j)), k)) = name}}

\* variable.defs of the variable called name in the scope of scopeNode
\* (the empty set when the scope has no such variable)
ScopeDefs(scopeNode, name) ==
    CASE Type(scopeNode) \in {"Program", "BlockStatement"} ->
            UNION {IF Type(Kid(scopeNode, i)) = "VariableDeclaration"
                   THEN {[type |-> "Variable", node |-> d] :
                            d \in DeclaratorsOf(Kid(scopeNode, i), name)}
                   ELSE IF /\ Type(Kid(scopeNode, i)) = "FunctionDeclaration"
                           /\ Name(Kid(Kid(scopeNode, i), 1)) = name
                   THEN {[type |-> "FunctionName", node |-> Kid(scopeNode, i)]}
                   ELSE {} : i \in 1..NumKids(scopeNode)}
      [] Type(scopeNode) = "ForStatement" ->
            IF Type(Kid(scopeNode, 1)) = "VariableDeclaration"
            THEN {[type |-> "Variable", node |-> d] :
                     d \in DeclaratorsOf(Kid(scopeNode, 1), name)}
            ELSE {}
      [] Type(scopeNode) = "FunctionDeclaration" ->
            IF Name(Kid(scopeNode, 2)) = name
            THEN {[type |-> "Parameter", node |-> scopeNode]} ELSE {}
      [] Type(scopeNode) = "ArrowFunctionExpression" ->
            IF Name(Kid(scopeNode, 1)) = name
            THEN {[type |-> "Parameter", node |-> scopeNode]} ELSE {}
      [] OTHER -> {}

\* the scopes around a node that have a variable called name
ScopesDeclaring(node, name) ==
    {s \in AncestorSet(node) : IsScopeNode(s) /\ ScopeDefs(s, name) # {}}

\* variant: the binding is looked up by name alone, whatever the scope
isArrayIndexVariable_ByName(node, tracked) ==
    \E d \in tracked : Name(DeclId(d)) = Name(node)

\* variant: a declaration counts from the start of its scope, as if hoisted
isArrayIndexVariable_Hoisted(node, tracked) ==
    LET found == ScopesDeclaring(node, Name(node))
    IN  IF found = {} THEN FALSE
        ELSE LET currentScope == CHOOSE s \in found : \A o \in found : Len(o) <= Len(s)
             IN  \E def \in ScopeDefs(currentScope, Name(node)) :
                    /\ def.type = "Variable"
                    /\ \/ def.node \in tracked
                       \/ /\ NumKids(def.node) = 2
                          /\ Type(DeclInit(def.node)) = "MemberExpression"
                          /\ isArrayIndexAccess(DeclInit(def.node))
                          /\ ~isSafeKeyAccess(DeclInit(def.node), services)

isArrayIndexVariable(node, tracked) ==
    LET found == ScopesDeclaring(node, Name(node))
    IN  IF found = {} THEN FALSE
        ELSE LET currentScope == CHOOSE s \in found : \A o \in found : Len(o) <= Len(s)
             IN  \E def \in ScopeDefs(currentScope, Name(node)) :
                    /\ def.type = "Variable"
                    /\ def.node \in tracked

-----------------------------------------------------------------------------
(* The traversal and the listeners *)

UnsafeAccess(node) == [node |-> node, messageId |-> "issue:unsafe-access"]

RECURSIVE NextAfter(_)
NextAfter(p) ==
    IF p = Root THEN NoNode
    ELSE IF IndexInParent(p) < NumKids(Parent(p))
    THEN Kid(Parent(p), IndexInParent(p) + 1)
    ELSE NextAfter(Parent(p))

\* depth-first, document order
NextNode(p) == IF NumKids(p) > 0 THEN Kid(p, 1) ELSE NextAfter(p)

Done == cur = NoNode

HasIdentifierListener(p) ==
    \/ Type(p) = "MemberExpression" /\ Type(Object(p)) = "Identifier"
    \/ Type(p) = "CallExpression" /\ Type(Callee(p)) = "Identifier"

\* the declarator is one whose initializer the listener asks the oracle about
\* variant: the id of the declarator is not looked at
VariableDeclaratorAsksOracle_AnyId(node) ==
    /\ NumKids(node) = 2
    /\ Type(DeclInit(node)) = "MemberExpression"
    /\ isArrayIndexAccess(DeclInit(node))

VariableDeclaratorAsksOracle(node) ==
    /\ NumKids(node) = 2
    /\ Type(DeclInit(node)) = "MemberExpression"
    /\ isArrayIndexAccess(DeclInit(node))
    /\ Type(DeclId(node)) = "Identifier"

VariableDeclaratorListener ==
    /\ ~Done
    /\ Type(cur) = "VariableDeclarator"
    /\ IF /\ VariableDeclaratorAsksOracle(cur)
          /\ isSafeKeyAccessOutcome(DeclInit(cur), services) = "throw"
       THEN /\ cur' = NoNode
            /\ phase' = "crashed"
            /\ UNCHANGED arrayIndexDeclarations
       ELSE /\ arrayIndexDeclarations' =
                  IF /\ VariableDeclaratorAsksOracle(cur)
                     /\ ~isSafeKeyAccess(DeclInit(cur), services)
                  THEN arrayIndexDeclarations \cup {cur}
                  ELSE arrayIndexDeclarations
            /\ cur' = NextNode(cur)
            /\ UNCHANGED phase
    /\ UNCHANGED <<ast, host, services, reports, linted, other, rule, filename, options>>

MemberExpressionReports(node) ==
    IF ~isArrayIndexAccess(node) THEN <<>>
    ELSE IF getArrayIndexVariableName(node) # null THEN <<>>
    ELSE IF isSafeKeyAccess(node, services) THEN <<>>
    ELSE IF isInsideSafeForLoop(node) THEN <<>>
    ELSE IF /\ getArrayIndexAccessKey(node) # null
            /\ isInsideNullCheckedBlockExpression(node, getArrayIndexAccessKey(node))
    THEN <<>>
    ELSE IF isUnsafePropertyAccess(node, Parent(node)) THEN <<UnsafeAccess(node)>>
    ELSE IF isUnsafeFunctionCall(node, Parent(node)) THEN <<UnsafeAccess(node)>>
    ELSE <<>>

\* the access is one the listener asks the oracle about
MemberExpressionAsksOracle(node) ==
    isArrayIndexAccess(node) /\ getArrayIndexVariableName(node) = null

MemberExpressionListener ==
    /\ ~Done
    /\ Type(cur) = "MemberExpression"
    /\ phase = "node"
    /\ IF /\ MemberExpressionAsksOracle(cur)
          /\ isSafeKeyAccessOutcome(cur, services) = "throw"
       THEN /\ cur' = NoNode
            /\ phase' = "crashed"
            /\ UNCHANGED reports
       ELSE /\ reports' = reports \o MemberExpressionReports(cur)
            /\ IF HasIdentifierListener(cur)
               THEN cur' = cur /\ phase' = "identifier"
               ELSE cur' = NextNode(cur) /\ phase' = "node"
    /\ UNCHANGED <<ast, host, services, arrayIndexDeclarations, linted, other, rule, filename, options>>

\* variant: optional chaining on the read is not looked at
MemberExpressionIdentifierReports_NoOptionalCheck(node) ==
    LET objectNode == Object(node)
    IN  IF ~isArrayIndexVariable(objectNode, arrayIndexDeclarations) THEN <<>>
        ELSE IF isInsideNullCheckedBlock(node, Name(objectNode)) THEN <<>>
        ELSE <<UnsafeAccess(objectNode)>>

MemberExpressionIdentifierReports(node) ==
    LET objectNode == Object(node)
    IN  IF ~isArrayIndexVariable(objectNode, arrayIndexDeclarations) THEN <<>>
        ELSE IF hasOptionalChaining(node) THEN <<>>
        ELSE IF isInsideNullCheckedBlock(node, Name(objectNode)) THEN <<>>
        ELSE <<UnsafeAccess(objectNode)>>

MemberExpressionIdentifierListener ==
    /\ ~Done
    /\ Type(cur) = "MemberExpression"
    /\ phase = "identifier"
    /\ reports' = reports \o MemberExpressionIdentifierReports(cur)
    /\ cur' = NextNode(cur)
    /\ phase' = "node"
    /\ UNCHANGED <<ast, host, services, arrayIndexDeclarations, linted, other, rule, filename, options>>

\* variant: the diagnostic is anchored at the call, not at its callee
CallExpressionIdentifierReports_AtCall(node) ==
    LET calleeNode == Callee(node)
    IN  IF ~isArrayIndexVariable(calleeNode, arrayIndexDeclarations) THEN <<>>
        ELSE IF isInsideNullCheckedBlock(node, Name(calleeNode)) THEN <<>>
        ELSE <<UnsafeAccess(node)>>

CallExpressionIdentifierReports(node) ==
    LET calleeNode == Callee(node)
    IN  IF ~isArrayIndexVariable(calleeNode, arrayIndexDeclarations) THEN <<>>
        ELSE IF isInsideNullCheckedBlock(node, Name(calleeNode)) THEN <<>>
        ELSE <<UnsafeAccess(calleeNode)>>

CallExpressionIdentifierListener ==
    /\ ~Done
    /\ Type(cur) = "CallExpression"
    /\ HasIdentifierListener(cur)
    /\ reports' = reports \o CallExpressionIdentifierReports(cur)
    /\ cur' = NextNode(cur)
    /\ UNCHANGED <<ast, host, services, phase, arrayIndexDeclarations, linted, other, rule, filename, options>>

\* a node no selector of the rule matches
Traverse ==
    /\ ~Done
    /\ Type(cur) # "VariableDeclarator"
    /\ Type(cur) # "MemberExpression"
    /\ ~(Type(cur) = "CallExpression" /\ HasIdentifierListener(cur))
    /\ cur' = NextNode(cur)
    /\ UNCHANGED <<ast, host, services, phase, arrayIndexDeclarations, reports,
                    linted, other, rule, filename, options>>

-----------------------------------------------------------------------------
(* The files the rule is run on *)

MaxChain == 2    \* longest chain of property reads after the subject

ArrId == Identifier("arr")
Arr0 == Index(ArrId, NumLit("0"))
ArrI == Index(ArrId, Identifier("i"))
ArrBin == Index(ArrId, Binary("+", Identifier("i"), NumLit("1")))
BindList0 == Index(Dot(Identifier("payload"), "bindList"), NumLit("0"))
Matrix00 == Index(Index(Identifier("m"), NumLit("0")), NumLit("0"))
MapKey == Index(Identifier("map"), Identifier("key"))
ObjFoo == Index(Identifier("obj"), StrLit("foo"))
ObjDotFoo == Dot(Identifier("obj"), "foo")

Accesses == {Arr0, ArrI, ArrBin, BindList0, Matrix00, MapKey, ObjFoo, ObjDotFoo}
GuardedAccesses == {Arr0, ArrBin, BindList0, MapKey}

RECURSIVE PropChain(_, _)
PropChain(x, d) == IF d = 0 THEN x ELSE Dot(PropChain(x, d - 1), "p")

UseKinds == {"prop", "call", "optprop", "optcall", "optmethod", "method",
             "bare", "coalesce", "passed", "store"}

Use(kind, x) ==
    CASE kind = "prop" -> Dot(x, "p")
      [] kind = "call" -> Call(x, <<>>)
      [] kind = "optprop" -> Chain(OptDot(x, "p"))
      [] kind = "optcall" -> Chain(OptCall(x, <<>>))
      [] kind = "optmethod" -> Chain(Call(Dot(OptDot(x, "name"), "toUpperCase"), <<>>))
      [] kind = "method" -> Call(Dot(x, "toString"), <<>>)
      [] kind = "bare" -> x
      [] kind = "coalesce" -> Logical("??", x, StrLit("default"))
      [] kind = "passed" -> Call(Identifier("f"), <<x>>)
      [] kind = "store" -> Assign(Dot(x, "p"), NumLit("1"))

Flag == Identifier("flag")
Undefined == Identifier("undefined")
Noop == ExprStmt(Call(Dot(Identifier("console"), "log"), <<StrLit("exists")>>))
ThrowError == Throw(Call(Identifier("Error"), <<StrLit("invalid")>>))

TestKinds == {"truthy", "not", "==null", "===null", "!=null", "!==null",
              "!==undefined", "and", "or", "flagAnd", "flag", "other", "less"}

\* a test of kind k about x; y is another subject
TestOf(k, x, y) ==
    CASE k = "truthy" -> x
      [] k = "not" -> Unary("!", x)
      [] k = "==null" -> Binary("==", x, NullLit)
      [] k = "===null" -> Binary("===", x, NullLit)
      [] k = "!=null" -> Binary("!=", x, NullLit)
      [] k = "!==null" -> Binary("!==", x, NullLit)
      [] k = "!==undefined" -> Binary("!==", x, Undefined)
      [] k = "and" -> Logical("&&", Binary("!==", x, NullLit), Binary("!==", x, Undefined))
      [] k = "or" -> Logical("||", Binary("==", x, NullLit), Flag)
      [] k = "flagAnd" -> Logical("&&", Flag, x)
      [] k = "flag" -> Flag
      [] k = "other" -> Binary("!=", y, NullLit)
      [] k = "less" -> Binary("<", x, NullLit)

ContextKinds == {"ifThen", "ifThenBare", "ifAfter", "ifElse", "throwAfter",
                 "returnAfter", "assignAfter", "andRight", "orRight",
                 "condThen", "condElse"}

\* the statements that put the use u of subject x in a context of kind c
\* built on the test t
Context(c, t, x, u) ==
    CASE c = "ifThen" -> <<If(t, Block(<<ExprStmt(u)>>))>>
      [] c = "ifThenBare" -> <<If(t, ExprStmt(u))>>
      [] c = "ifAfter" -> <<If(t, Block(<<Noop>>)), ExprStmt(u)>>
      [] c = "ifElse" -> <<IfElse(t, Block(<<Noop>>), Block(<<ExprStmt(u)>>))>>
      [] c = "throwAfter" -> <<If(t, Block(<<ThrowError>>)), ExprStmt(u)>>
      [] c = "returnAfter" -> <<If(t, ReturnVoid), Noop, ExprStmt(u)>>
      [] c = "assignAfter" ->
            <<If(t, Block(<<ExprStmt(Assign(x, Identifier("init")))>>)), ExprStmt(u)>>
      [] c = "andRight" -> <<ExprStmt(Logical("&&", t, u))>>
      [] c = "orRight" -> <<ExprStmt(Logical("||", t, u))>>
      [] c = "condThen" -> <<ExprStmt(Cond(t, u, StrLit("default")))>>
      [] c = "condElse" -> <<ExprStmt(Cond(t, StrLit("default"), u))>>

V == Identifier("v")
OtherVar == Identifier("w")
OtherAccess == Index(Identifier("other"), NumLit("0"))

\* a use with no construct around it, of the access itself or of a variable
\* initialised from it
PlainPrograms ==
    {Program(<<ExprStmt(Use(k, a))>>) : k \in UseKinds, a \in Accesses}
    \cup {Program(<<Const("value", Use(k, a))>>) : k \in UseKinds, a \in Accesses}
    \cup {Program(<<Const("v", a), ExprStmt(Use(k, V))>>) : k \in UseKinds, a \in Accesses}
    \cup {Program(<<ExprStmt(PropChain(a, d))>>) : d \in 1..MaxChain, a \in Accesses}
    \cup {Program(<<Const("v", a), ExprStmt(PropChain(V, d))>>) :
            d \in 1..MaxChain, a \in Accesses}

GuardUseKinds == {"prop", "call"}

GuardPrograms ==
    {Program(Context(c, TestOf(t, a, OtherAccess), a, Use(k, a))) :
        c \in ContextKinds, t \in TestKinds, k \in GuardUseKinds, a \in GuardedAccesses}
    \cup {Program(<<Const("v", a)>> \o Context(c, TestOf(t, V, OtherVar), V, Use(k, V))) :
        c \in ContextKinds, t \in TestKinds, k \in GuardUseKinds, a \in GuardedAccesses}

LetI == Decl("let", "i", NumLit("0"))
Inc == Mk("UpdateExpression", "++", FALSE, FALSE, "", <<Identifier("i")>>)
Routes == Dot(Identifier("data"), "routes")
Length(a) == Dot(a, "length")

ForTests ==
    {Binary("<", Identifier("i"), Length(ArrId)),
     Binary("<=", Identifier("i"), Binary("-", Length(ArrId), NumLit("1"))),
     Binary("<", Identifier("i"), Length(Routes)),
     Binary("<=", Identifier("i"), Length(ArrId)),
     Binary("<", Identifier("i"), Binary("-", Length(ArrId), NumLit("2"))),
     Binary("<", Identifier("j"), Length(ArrId)),
     Binary("<", Identifier("i"), Length(Identifier("other"))),
     Binary(">", Identifier("i"), Length(ArrId)),
     Binary("<", Identifier("i"), Dot(ArrId, "size")),
     Binary("<", Identifier("i"), NumLit("10"))}

ForAccesses == {ArrI, Index(Routes, Identifier("i")), Arr0, ArrBin,
                Index(ArrId, Identifier("j"))}

ForUses(x) ==
    {PropChain(x, d) : d \in 1..MaxChain}
    \cup {Call(x, <<>>), Call(PropChain(x, 1), <<>>)}

ForPrograms ==
    {Program(<<For(LetI, t, Inc, Block(<<ExprStmt(u)>>))>>) :
        t \in ForTests, u \in UNION {ForUses(a) : a \in ForAccesses}}
    \cup {Program(<<For(LetI, t, Inc, Block(<<Const("v", a), ExprStmt(Dot(V, "p"))>>))>>) :
        t \in ForTests, a \in ForAccesses}

Other == Identifier("other")

\* the same name declared again in a nested scope, as a parameter or as a
\* variable, and a use reached from another function
ScopePrograms ==
    {Program(<<Const("v", a), FunctionDecl("g", p, Block(<<Return(Use(k, V))>>))>>) :
        p \in {"v", "x"}, k \in GuardUseKinds, a \in GuardedAccesses}
    \cup {Program(<<Const("v", a), ExprStmt(Call(Identifier("f"), <<Arrow(p, Use(k, V))>>))>>) :
        p \in {"v", "x"}, k \in GuardUseKinds, a \in GuardedAccesses}
    \cup {Program(<<Const("v", outer), Block(<<Const("v", inner), ExprStmt(Use(k, V))>>)>>) :
        outer \in {Arr0, Other}, inner \in {Arr0, Other}, k \in GuardUseKinds}
    \cup {Program(<<FunctionDecl("g", "x", Block(<<Const("v", a)>>)), ExprStmt(Use(k, V))>>) :
        k \in GuardUseKinds, a \in GuardedAccesses}
    \cup {Program(<<FunctionDecl("g", p, Block(<<Return(Use(k, V))>>)), Const("v", a)>>) :
        p \in {"v", "x"}, k \in GuardUseKinds, a \in GuardedAccesses}

\* accesses whose exemption hangs on the static types of object and key
TypedAccesses ==
    {Index(Identifier(o), Identifier(k)) :
        o \in {"map", "arr", "tuple"},
        k \in {"key", "fmt", "status", "active", "k", "lit", "g", "s", "i"}}

TypedPrograms ==
    {Program(<<ExprStmt(Use(k, a))>>) : k \in GuardUseKinds, a \in TypedAccesses}
    \cup {Program(<<Const("v", a), ExprStmt(Use(k, V))>>) :
            k \in GuardUseKinds, a \in TypedAccesses}

\* a use below the right operand of a logical AND on the subject
AndPrograms ==
    {Program(<<ExprStmt(Logical("&&", a, Use(k, a)))>>) :
        k \in {"method", "store"}, a \in GuardedAccesses}
    \cup {Program(<<Const("v", a), ExprStmt(Logical("&&", V, Use(k, V)))>>) :
        k \in {"method", "store"}, a \in GuardedAccesses}

NestKinds == {"block", "loop", "if", "ifBare", "function", "arrow"}

\* a later statement of the block that holds the use u at some depth
Nest(k, u) ==
    CASE k = "block" -> Block(<<ExprStmt(u)>>)
      [] k = "loop" ->
            For(LetI, Binary("<", Identifier("i"), NumLit("10")), Inc, Block(<<ExprStmt(u)>>))
      [] k = "if" -> If(Flag, Block(<<ExprStmt(u)>>))
      [] k = "ifBare" -> If(Flag, ExprStmt(u))
      [] k = "function" -> FunctionDecl("g", "x", Block(<<Return(u)>>))
      [] k = "arrow" -> ExprStmt(Call(Identifier("f"), <<Arrow("x", u)>>))

\* an early exit on the subject, then a use of it inside a later statement
NestPrograms ==
    {Program(<<If(Binary("==", a, NullLit), exit), Nest(n, Use(k, a))>>) :
        exit \in {ReturnVoid, Block(<<ThrowError>>)}, n \in NestKinds,
        k \in GuardUseKinds, a \in GuardedAccesses}
    \cup {Program(<<Const("v", a), If(Binary("==", V, NullLit), exit), Nest(n, Use(k, V))>>) :
        exit \in {ReturnVoid, Block(<<ThrowError>>)}, n \in NestKinds,
        k \in GuardUseKinds, a \in GuardedAccesses}

\* a declaration with any id and with or without an initializer
DeclOf(kind, id, init) ==
    Mk("VariableDeclaration", kind, FALSE, FALSE, "",
       <<Mk("VariableDeclarator", "", FALSE, FALSE, "", <<id>> \o init)>>)

\* const { p } = ... : a destructuring id with the one shorthand property p
ObjectPattern(p) == Mk("ObjectPattern", "", FALSE, FALSE, "", <<Identifier(p)>>)

\* bindings that are assigned later, have no initializer or no plain id, or
\* whose initializer stands under a guard
BindingPrograms ==
    UNION {{Program(<<DeclOf("let", V, <<a>>), ExprStmt(Assign(V, Identifier("init"))),
                      ExprStmt(Use(k, V))>>),
            Program(<<DeclOf("let", V, <<>>), ExprStmt(Assign(V, a)), ExprStmt(Use(k, V))>>),
            Program(<<DeclOf("let", V, <<NumLit("1")>>), ExprStmt(Assign(V, a)),
                      ExprStmt(Use(k, V))>>),
            Program(<<DeclOf("const", ObjectPattern("v"), <<a>>), ExprStmt(Use(k, V))>>),
            Program(<<If(Binary("!=", a, NullLit),
                         Block(<<Const("v", a), ExprStmt(Use(k, V))>>))>>),
            Program(<<Const("v", a), Const("w", OtherAccess), ExprStmt(Use(k, OtherVar))>>)} :
           k \in GuardUseKinds, a \in GuardedAccesses}

\* accesses that differ in one segment, in the name of the root, in the kind
\* of a key or in the spelling of a literal
IdentityAccesses ==
    {Arr0, Index(ArrId, NumLit("1")), Index(ArrId, NumLit("1e0")), ArrI,
     Index(ArrId, Identifier("Infinity")), Index(ArrId, NumLit("1e309")),
     OtherAccess, BindList0, Index(Index(Identifier("payload"), Identifier("bindList")), NumLit("0")),
     Matrix00, Index(Dot(Identifier("m"), "p"), NumLit("0"))}

\* an early exit on one access, then a use of another
IdentityPrograms ==
    {Program(<<If(Binary("==", a, NullLit), ReturnVoid), ExprStmt(Dot(b, "p"))>>) :
        a \in IdentityAccesses, b \in IdentityAccesses}

\* accesses with a segment that has no canonical text
NoIdentityAccesses ==
    {Index(ArrBin, NumLit("0")), Index(Index(Identifier("obj"), StrLit("k")), NumLit("0")),
     Index(Call(Identifier("f"), <<>>), NumLit("0"))}

\* such an access, and a variable initialised from it, under a check of itself
NoIdentityPrograms ==
    {Program(Context(c, TestOf("==null", a, OtherAccess), a, Use("prop", a))) :
        c \in {"ifThen", "throwAfter", "andRight"}, a \in NoIdentityAccesses}
    \cup {Program(<<Const("v", a)>> \o Context(c, TestOf("==null", V, OtherVar), V, Use("prop", V))) :
        c \in {"ifThen", "ifAfter", "throwAfter"}, a \in NoIdentityAccesses}

\* tests that come close to a nullish check of v, and nested ones
ShapeTests ==
    {Binary("==", NullLit, V), Binary("==", V, NumLit("0")), Binary("==", Dot(V, "p"), NullLit),
     Unary("!", Unary("!", V)), Unary("!", OtherVar), Unary("typeof", V),
     Logical("||", Flag, OtherVar), Logical("??", V, Flag),
     Logical("||", Flag, Logical("&&", Flag, Unary("!", V))),
     Logical("&&", Logical("||", Binary("===", V, Undefined), Flag), OtherVar)}

ShapePrograms ==
    {Program(<<Const("v", Arr0)>> \o Context(c, t, V, Use("call", V))) :
        c \in {"ifThen", "returnAfter"}, t \in ShapeTests}

\* a use whose statement stands before the early exit or the lazy
\* initialization on its subject
OrderPrograms ==
    UNION {{Program(<<ExprStmt(Use(k, a)), If(Binary("==", a, NullLit), exit)>>),
            Program(<<ExprStmt(Use(k, a)),
                      If(Unary("!", a), Block(<<ExprStmt(Assign(a, Identifier("init")))>>))>>),
            Program(<<Const("v", a), ExprStmt(Use(k, V)), If(Binary("==", V, NullLit), exit)>>),
            Program(<<Const("v", a), Block(<<ExprStmt(Use(k, V)), If(Unary("!", V), exit)>>)>>),
            Program(<<Const("v", a), ExprStmt(Use(k, V)), If(Binary("==", V, NullLit), exit),
                      ExprStmt(Use(k, V))>>)} :
           k \in GuardUseKinds, a \in GuardedAccesses, exit \in {ReturnVoid, Block(<<ThrowError>>)}}

Programs ==
    OrderPrograms \cup ShapePrograms \cup NoIdentityPrograms \cup IdentityPrograms \cup BindingPrograms \cup PlainPrograms \cup GuardPrograms \cup ForPrograms \cup ScopePrograms
        \cup TypedPrograms \cup AndPrograms \cup NestPrograms

\* the hosts a file is linted on
Hosts(file) ==
    IF file \in TypedPrograms THEN {"absent", "throws", "typed", "faulty"}
    ELSE {"absent", "typed"}

\* the state create() leaves a rule context in
RuleContext(file, h, n) ==
    [ast |-> file, host |-> h, services |-> createServices(h), cur |-> Root,
     phase |-> "node", arrayIndexDeclarations |-> {}, reports |-> <<>>,
     linted |-> n]

\* no other file is being linted
Idle == RuleContext(Program(<<>>), "absent", 0)

-----------------------------------------------------------------------------
(* The specification: one file is linted in one depth-first pass *)

Init ==
    /\ ast \in Programs
    /\ host \in Hosts(ast)
    /\ services = createServices(host)
    /\ cur = Root
    /\ phase = "node"
    /\ arrayIndexDeclarations = {}
    /\ reports = <<>>
    /\ linted = 1
    /\ other = Idle
    /\ rule = "array-index-check-undefined"
    /\ filename = "src/file.ts"
    /\ options = <<>>

Next ==
    \/ VariableDeclaratorListener
    \/ MemberExpressionListener
    \/ MemberExpressionIdentifierListener
    \/ CallExpressionIdentifierListener
    \/ Traverse

Spec == Init /\ [][Next]_vars

-----------------------------------------------------------------------------
(* Several files: the process lints one file after another with the rule,  *)
(* create() being called once per file, and the passes over two files may  *)
(* be interleaved.                                                         *)

MaxFiles == 2    \* files linted one after another in one rule context slot

FilePrograms ==
    {Program(<<Const("v", MapKey), ExprStmt(Use("prop", V))>>),
     Program(<<ExprStmt(Use("call", MapKey))>>),
     Program(<<Const("v", Arr0), ExprStmt(Use("call", V))>>),
     Program(<<Const("v", ObjDotFoo), ExprStmt(Use("prop", V))>>)}

FileHosts == {"absent", "throws", "typed", "faulty"}

\* the rule context whose listeners are running
Active ==
    [ast |-> ast, host |-> host, services |-> services, cur |-> cur,
     phase |-> phase, arrayIndexDeclarations |-> arrayIndexDeclarations,
     reports |-> reports, linted |-> linted]

Resume(c) ==
    /\ ast' = c.ast
    /\ host' = c.host
    /\ services' = c.services
    /\ cur' = c.cur
    /\ phase' = c.phase
    /\ arrayIndexDeclarations' = c.arrayIndexDeclarations
    /\ reports' = c.reports
    /\ linted' = c.linted

\* the host goes on with the pass over the other file
Switch ==
    /\ other # Idle
    /\ Resume(other)
    /\ other' = Active
    /\ UNCHANGED <<rule, filename, options>>

\* variant: the tracked set outlives the file
NewFile_SharedTrackedSet ==
    /\ Done
    /\ linted < MaxFiles
    /\ \E f \in FilePrograms, h \in FileHosts :
          Resume([RuleContext(f, h, linted + 1)
                    EXCEPT !.arrayIndexDeclarations = arrayIndexDeclarations])
    /\ UNCHANGED <<other, rule, filename, options>>

\* the pass is over and create() is called for the next file
NewFile ==
    /\ Done
    /\ linted < MaxFiles
    /\ \E f \in FilePrograms, h \in FileHosts : Resume(RuleContext(f, h, linted + 1))
    /\ UNCHANGED <<other, rule, filename, options>>

InitFiles ==
    /\ ast \in FilePrograms
    /\ host \in FileHosts
    /\ services = createServices(host)
    /\ cur = Root
    /\ phase = "node"
    /\ arrayIndexDeclarations = {}
    /\ reports = <<>>
    /\ linted = 1
    /\ \E f \in FilePrograms, h \in FileHosts : other = RuleContext(f, h, 1)
    /\ rule = "array-index-check-undefined"
    /\ filename = "src/file.ts"
    /\ options = <<>>

NextFiles ==
    \/ VariableDeclaratorListener
    \/ MemberExpressionListener
    \/ MemberExpressionIdentifierListener
    \/ CallExpressionIdentifierListener
    \/ Traverse
    \/ Switch
    \/ NewFile

SpecFiles == InitFiles /\ [][NextFiles]_vars

-----------------------------------------------------------------------------
(* The rules on class members: repository-method-prefix and                *)
(* use-api-operation.  MethodDefinition <<key, decorators...>> carries its *)
(* kind as name, Decorator <<expression>>, ObjectExpression                *)
(* <<properties...>>, Property <<key, value>>.                             *)

Method(kind, key, decorators) ==
    Mk("MethodDefinition", kind, FALSE, FALSE, "", <<key>> \o decorators)
Decorator(e) == Mk("Decorator", "", FALSE, FALSE, "", <<e>>)
Prop(key) == Mk("Property", "", FALSE, FALSE, "", <<key, StrLit("text")>>)
ObjectExpression(props) == Mk("ObjectExpression", "", FALSE, FALSE, "", props)
ClassFile(members) ==
    Program(<<Mk("ClassDeclaration", "", FALSE, FALSE, "",
                 <<Mk("ClassBody", "", FALSE, FALSE, "", members)>>)>>)

Key(p) == Kid(p, 1)                  \* node.key, property.key
Decorators(p) == [i \in 1..(NumKids(p) - 1) |-> Kid(p, i + 1)]   \* node.decorators
Arguments(p) == [i \in 1..(NumKids(p) - 1) |-> Kid(p, i + 1)]    \* call.arguments

Char(s, i) == SubSeq(s, i, i)

\* Array.prototype.join
RECURSIVE join(_, _)
join(list, sep) ==
    IF Len(list) = 0 THEN ""
    ELSE IF Len(list) = 1 THEN list[1]
    ELSE list[1] \o sep \o join(Tail(list), sep)

\* path.basename
RECURSIVE basename(_)
basename(path) ==
    IF \E i \in 1..Len(path) : Char(path, i) = "/" THEN basename(Tail(path)) ELSE path

\* the alternatives of a group: its text cut at every "|"
RECURSIVE alternatives(_)
alternatives(s) ==
    IF \E i \in 1..Len(s) : Char(s, i) = "|"
    THEN LET i == CHOOSE i \in 1..Len(s) :
                    Char(s, i) = "|" /\ \A j \in 1..(i - 1) : Char(s, j) # "|"
         IN  <<SubSeq(s, 1, i - 1)>> \o alternatives(SubSeq(s, i + 1, Len(s)))
    ELSE <<s>>

\* the pattern from position i on matches s from position j on; the pattern
\* is made of literal characters, escaped characters, "." and a final "$"
RECURSIVE matchHere(_, _, _, _)
matchHere(pattern, i, s, j) ==
    IF i > Len(pattern) THEN TRUE
    ELSE IF Char(pattern, i) = "$" /\ i = Len(pattern) THEN j = Len(s) + 1
    ELSE IF Char(pattern, i) = "\\"
    THEN /\ j <= Len(s)
         /\ Char(s, j) = Char(pattern, i + 1)
         /\ matchHere(pattern, i + 2, s, j + 1)
    ELSE IF Char(pattern, i) = "."
    THEN j <= Len(s) /\ matchHere(pattern, i + 1, s, j + 1)
    ELSE /\ j <= Len(s)
         /\ Char(s, j) = Char(pattern, i)
         /\ matchHere(pattern, i + 1, s, j + 1)

\* new RegExp(source).test(s), for a source that is either ^(a|b|...) or a
\* pattern with no group
RegExpTest(source, s) ==
    IF /\ Len(source) >= 3
       /\ SubSeq(source, 1, 2) = "^("
       /\ Char(source, Len(source)) = ")"
    THEN LET alts == alternatives(SubSeq(source, 3, Len(source) - 1))
         IN  \E k \in 1..Len(alts) : matchHere(alts[k], 1, s, 1)
    ELSE \E j \in 1..(Len(s) + 1) : matchHere(source, 1, s, j)

Report(node, messageId) == [node |-> node, messageId |-> messageId]

RepositoryMethodPrefixReports(node) ==
    IF ~RegExpTest(options.targetFilePattern, basename(filename)) THEN <<>>
    ELSE IF Type(Key(node)) # "Identifier" THEN <<>>
    ELSE IF Name(node) # "method" THEN <<>>
    ELSE IF ~RegExpTest("^(" \o join(options.allowPrefixes, "|") \o ")", Name(Key(node)))
    THEN <<Report(node, "issue:violate")>>
    ELSE <<>>

RepositoryMethodDefinitionListener ==
    /\ ~Done
    /\ rule = "repository-method-prefix"
    /\ Type(cur) = "MethodDefinition"
    /\ reports' = reports \o RepositoryMethodPrefixReports(cur)
    /\ cur' = NextNode(cur)
    /\ UNCHANGED <<ast, host, services, phase, arrayIndexDeclarations, linted,
                   other, rule, filename, options>>

targetDecorators == {"Get", "Post", "Delete", "Patch", "Put"}

\* d.expression is a call of an identifier with one of the names
IsCallDecorator(d, names) ==
    /\ Type(Kid(d, 1)) = "CallExpression"
    /\ Type(Callee(Kid(d, 1))) = "Identifier"
    /\ Name(Callee(Kid(d, 1))) \in names

\* v.properties.find(...): a Property whose key, read as an identifier, has
\* the name
HasProperty(v, name) ==
    \E i \in 1..NumKids(v) :
        /\ Type(Kid(v, i)) = "Property"
        /\ Type(Key(Kid(v, i))) = "Identifier"
        /\ Name(Key(Kid(v, i))) = name

\* the body of args.forEach for one argument
ArgumentReports(node, v) ==
    IF Type(v) # "ObjectExpression" THEN <<>>
    ELSE (IF ~HasProperty(v, "summary") /\ options.shouldBeSummary
          THEN <<Report(node, "issue:summary-not-exist")>> ELSE <<>>)
         \o (IF ~HasProperty(v, "description") /\ options.shouldBeDescription
             THEN <<Report(node, "issue:desc-not-exist")>> ELSE <<>>)

RECURSIVE ForEachArgument(_, _, _)
ForEachArgument(node, args, i) ==
    IF i > Len(args) THEN <<>>
    ELSE ArgumentReports(node, args[i]) \o ForEachArgument(node, args, i + 1)

\* variant: an endpoint is a method with any decorator at all
UseApiOperationReports_AnyDecorator(node) ==
    LET decorators == Decorators(node)
        found == {i \in 1..Len(decorators) : IsCallDecorator(decorators[i], {"ApiOperation"})}
    IN  IF Len(decorators) = 0 THEN <<>>
        ELSE IF found = {} THEN <<Report(node, "issue:not-exist")>>
        ELSE LET first == CHOOSE i \in found : \A j \in found : i <= j
             IN  ForEachArgument(node, Arguments(Kid(decorators[first], 1)), 1)

UseApiOperationReports(node) ==
    LET decorators == Decorators(node)
        isInTarget == \E i \in 1..Len(decorators) :
                          IsCallDecorator(decorators[i], targetDecorators)
        found == {i \in 1..Len(decorators) : IsCallDecorator(decorators[i], {"ApiOperation"})}
    IN  IF ~isInTarget THEN <<>>
        ELSE IF found = {} THEN <<Report(node, "issue:not-exist")>>
        ELSE LET first == CHOOSE i \in found : \A j \in found : i <= j
             IN  ForEachArgument(node, Arguments(Kid(decorators[first], 1)), 1)

UseApiOperationMethodDefinitionListener ==
    /\ ~Done
    /\ rule = "use-api-operation"
    /\ Type(cur) = "MethodDefinition"
    /\ reports' = reports \o UseApiOperationReports(cur)
    /\ cur' = NextNode(cur)
    /\ UNCHANGED <<ast, host, services, phase, arrayIndexDeclarations, linted,
                   other, rule, filename, options>>

\* a node of a class file that is no MethodDefinition
ClassTraverse ==
    /\ ~Done
    /\ rule \in {"repository-method-prefix", "use-api-operation"}
    /\ Type(cur) # "MethodDefinition"
    /\ cur' = NextNode(cur)
    /\ UNCHANGED <<ast, host, services, phase, arrayIndexDeclarations, reports,
                   linted, other, rule, filename, options>>

-----------------------------------------------------------------------------
(* The class files the two rules are run on *)

MethodNames ==
    {"findOneById", "findManyByIds", "updateName", "deleteAll", "createOne",
     "findone", "FindOne", "getAll", "refindOne", "find", "constructor"}

RepositoryMembers ==
    {Method("method", Identifier(n), <<>>) : n \in MethodNames}
    \cup {Method(k, Identifier("getAll"), <<>>) : k \in {"constructor", "get", "set"}}
    \cup {Method("method", StrLit("getAll"), <<>>),
          Method("method", Mk("PrivateIdentifier", "getAll", FALSE, FALSE, "", <<>>), <<>>)}

RepositoryFiles ==
    {ClassFile(<<m>>) : m \in RepositoryMembers}
    \cup {ClassFile(<<Method("method", Identifier(a), <<>>),
                      Method("method", Identifier(b), <<>>)>>) :
            a \in {"getAll", "createOne"}, b \in {"getAll", "createOne"}}

Filenames ==
    {"src/user.repository.ts", "src/user.service.ts", "src/user.repository.tsx",
     "src/user.repository.ts/index.ts", "src/repository.ts", ".repository.ts"}

AllowPrefixLists ==
    {<<"findOne", "findMany", "update", "delete", "create">>, <<"get">>, <<>>}

RepositoryOptions ==
    {[targetFilePattern |-> t, allowPrefixes |-> a] :
        t \in {"\\.repository\\.ts$", "\\.service\\.ts$"}, a \in AllowPrefixLists}

CallOf(name, args) == Decorator(Call(Identifier(name), args))

EndpointDecorators ==
    {CallOf(n, <<StrLit("path")>>) : n \in targetDecorators}
    \cup {CallOf("UseGuards", <<>>),
          Decorator(Identifier("Get")),
          Decorator(Call(Dot(Identifier("nest"), "Get"), <<>>))}

ApiOperationDecorators ==
    {CallOf("ApiOperation", <<ObjectExpression(props)>>) :
        props \in {<<>>,
                   <<Prop(Identifier("summary"))>>,
                   <<Prop(Identifier("description"))>>,
                   <<Prop(Identifier("summary")), Prop(Identifier("description"))>>,
                   <<Prop(StrLit("summary")), Prop(Identifier("deprecated"))>>}}
    \cup {CallOf("ApiOperation", <<>>),
          CallOf("ApiOperation", <<Identifier("operation")>>),
          CallOf("ApiOperation", <<ObjectExpression(<<>>), ObjectExpression(<<>>)>>),
          Decorator(Identifier("ApiOperation"))}

ControllerFiles ==
    {ClassFile(<<Method("method", Identifier("list"), <<d>>)>>) :
        d \in EndpointDecorators \cup ApiOperationDecorators}
    \cup {ClassFile(<<Method("method", Identifier("list"), <<d, a>>)>>) :
        d \in EndpointDecorators, a \in ApiOperationDecorators}
    \cup {ClassFile(<<Method("method", Identifier("list"), <<a, d>>)>>) :
        d \in EndpointDecorators, a \in ApiOperationDecorators}
    \cup {ClassFile(<<Method("method", Identifier("list"), <<>>)>>)}

UseApiOperationOptions ==
    {[shouldBeSummary |-> x, shouldBeDescription |-> y] : x, y \in BOOLEAN}

InitClass ==
    /\ rule \in {"repository-method-prefix", "use-api-operation"}
    /\ IF rule = "repository-method-prefix"
       THEN /\ ast \in RepositoryFiles
            /\ filename \in Filenames
            /\ options \in RepositoryOptions
       ELSE /\ ast \in ControllerFiles
            /\ filename = "src/user.controller.ts"
            /\ options \in UseApiOperationOptions
    /\ host = "absent"
    /\ services = "none"
    /\ cur = Root
    /\ phase = "node"
    /\ arrayIndexDeclarations = {}
    /\ reports = <<>>
    /\ linted = 1
    /\ other = Idle

NextClass ==
    \/ RepositoryMethodDefinitionListener
    \/ UseApiOperationMethodDefinitionListener
    \/ ClassTraverse

SpecClass == InitClass /\ [][NextClass]_vars

-----------------------------------------------------------------------------
(* Vocabulary of the properties *)

\* the number of diagnostics issue:unsafe-access anchored at node n
ReportsAt(n) ==
    Cardinality({i \in 1..Len(reports) : reports[i] = UnsafeAccess(n)})

\* a computed access whose key is a numeric literal, an identifier or a
\* binary expression
IsDynamicAccess(n) ==
    /\ Type(n) = "MemberExpression"
    /\ N(n).computed
    /\ \/ Type(Property(n)) = "Literal" /\ N(Property(n)).lit = "number"
       \/ Type(Property(n)) \in {"Identifier", "BinaryExpression"}

IsObjectOfRead(n) ==
    HasParent(n) /\ Type(Parent(n)) = "MemberExpression" /\ Object(Parent(n)) = n

IsCalleeOfCall(n) ==
    HasParent(n) /\ Type(Parent(n)) = "CallExpression" /\ Callee(Parent(n)) = n

IsUsed(n) == IsObjectOfRead(n) \/ IsCalleeOfCall(n)

IsInitializer(n) ==
    HasParent(n) /\ Type(Parent(n)) = "VariableDeclarator" /\ Kid(Parent(n), 2) = n

\* document order of two different nodes
Precedes(p, q) ==
    \/ isDescendant(p, q)
    \/ \E j \in 1..Len(p) :
          /\ j <= Len(q)
          /\ SubSeq(p, 1, j - 1) = SubSeq(q, 1, j - 1)
          /\ p[j] < q[j]

\* the declarator an identifier resolves to: that of the nearest enclosing
\* scope with a variable of its name, if that variable is a declared one
BindingOf(u) ==
    LET found == ScopesDeclaring(u, Name(u))
    IN  IF found = {} THEN {}
        ELSE LET scope == CHOOSE s \in found : \A o \in found : Len(o) <= Len(s)
             IN  {def.node : def \in {d \in ScopeDefs(scope, Name(u)) : d.type = "Variable"}}

\* an identifier bound to a tracked declarator that the traversal has passed
IsTrackedUse(u) ==
    /\ Type(u) = "Identifier"
    /\ \E d \in BindingOf(u) : d \in arrayIndexDeclarations /\ Precedes(d, u)

\* an identifier bound to a variable initialised from a dynamic-key access
IsBoundToAccess(u) ==
    /\ Type(u) = "Identifier"
    /\ \E d \in BindingOf(u) : NumKids(d) = 2 /\ IsDynamicAccess(Kid(d, 2))

FiniteKeyType(type) ==
    \/ type.kind \in {"enum", "enumlit", "strlit"}
    \/ type.kind = "union" /\ \A i \in 1..Len(type.parts) :
          type.parts[i].kind \in {"strlit", "numlit", "enumlit"}
    \/ type.kind = "typeparam" /\ type.parts[1].kind \in {"enum", "union"}

\* the access is total by its types: type information is there, the key is
\* an identifier of a finite key type and the object is no array or tuple
IsTypeExempt(n) ==
    /\ services = "typed"
    /\ Type(Property(n)) = "Identifier"
    /\ FiniteKeyType(TypeEnv(Name(Property(n))))
    /\ ~(Type(Object(n)) = "Identifier"
         /\ TypeEnv(Name(Object(n))).kind \in {"array", "tuple"})

GuardConstructs ==
    {"IfStatement", "LogicalExpression", "ConditionalExpression",
     "ForStatement", "ChainExpression"}

\* the statement of a block or of the program that a node is part of
StatementOf(n) ==
    CHOOSE s \in AncestorSet(n) \cup {n} :
        /\ HasParent(s) /\ Type(Parent(s)) \in {"BlockStatement", "Program"}
        /\ \A o \in AncestorSet(n) \cup {n} :
              (HasParent(o) /\ Type(Parent(o)) \in {"BlockStatement", "Program"})
                  => Len(o) <= Len(s)

\* the if statements before the statement of n in its statement list
PrecedingIfs(n) ==
    LET st == StatementOf(n)
    IN  {Kid(Parent(st), i) : i \in {j \in 1..(st[Len(st)] - 1) :
            Type(Kid(Parent(st), j)) = "IfStatement"}}

\* no guarding construct encloses n
NoEnclosingGuard(n) ==
    /\ \A a \in AncestorSet(n) : Type(a) \notin GuardConstructs
    /\ ~N(Parent(n)).optional

\* n stands under no guarding construct and after no if statement
FullyUnguarded(n) == NoEnclosingGuard(n) /\ PrecedingIfs(n) = {}

-----------------------------------------------------------------------------
C1_UnguardedAccess(n) ==
    /\ IsDynamicAccess(n)
    /\ IsUsed(n)
    /\ ~IsInitializer(n)
    /\ FullyUnguarded(n)
    /\ ~IsTypeExempt(n)

(* C1: every dynamic-key access that is the object of a property read or    *)
(* the callee of a call, is no initializer, is type-exempt by nothing and   *)
(* stands under no if, logical, conditional, for or optional-chain          *)
(* construct and after no if statement of its block, has exactly one        *)
(* diagnostic issue:unsafe-access anchored at it when the pass is over; the *)
(* count is per node, so m[0][0].toString() has one at m[0] and one at      *)
(* m[0][0].                                                                 *)
C1_UnguardedAccessReportedOnce ==
    Done => /\ \A n \in Nodes : C1_UnguardedAccess(n) => ReportsAt(n) = 1
            /\ ast = Program(<<Const("value", Use("method", Matrix00))>>)
                  => Len(reports) = 2

C1_Witness ==
    /\ Done
    /\ Len(reports) = 2
    /\ \E n \in Nodes : /\ C1_UnguardedAccess(n) /\ C1_UnguardedAccess(Object(n))
                        /\ ReportsAt(n) = 1 /\ ReportsAt(Object(n)) = 1

C2_UnguardedVariableUse(u) ==
    /\ IsTrackedUse(u)
    /\ IsUsed(u)
    /\ FullyUnguarded(u)

(* C2: every use v.x or v() of a variable whose declarator is tracked and    *)
(* precedes the use, standing under no guarding construct and after no if   *)
(* statement, has exactly one diagnostic anchored at the identifier of the  *)
(* use; no diagnostic is ever anchored at a declarator or its initializer.  *)
C2_VariableUseReportedAtUse ==
    /\ Done => \A u \in Nodes : C2_UnguardedVariableUse(u) => ReportsAt(u) = 1
    /\ \A i \in 1..Len(reports) :
          /\ Type(reports[i].node) # "VariableDeclarator"
          /\ ~IsInitializer(reports[i].node)

C2_Witness ==
    /\ Done
    /\ \E u \in Nodes : C2_UnguardedVariableUse(u) /\ IsCalleeOfCall(u) /\ ReportsAt(u) = 1

(* C3: every diagnostic is anchored at a dynamic-key access or at an         *)
(* identifier bound to a variable initialised from one, and that node is    *)
(* the object of a property read or the callee of a call; so a string-keyed *)
(* access, a dot access and a bare read that is assigned, passed or the     *)
(* left operand of ?? have no diagnostic.                                   *)
C3_OnlyUsedDynamicSubjectsReported ==
    \A i \in 1..Len(reports) :
        LET n == reports[i].node
        IN  /\ reports[i].messageId = "issue:unsafe-access"
            /\ IsUsed(n)
            /\ IsDynamicAccess(n) \/ IsBoundToAccess(n)

C3_Witness ==
    /\ Done
    /\ \E i, j \in 1..Len(reports) :
          /\ IsDynamicAccess(reports[i].node)
          /\ IsBoundToAccess(reports[j].node)

C4_OptionalRead(n) ==
    /\ Type(n) = "MemberExpression"
    /\ N(n).optional
    /\ IsDynamicAccess(Object(n)) \/ IsTrackedUse(Object(n))

(* C4: a property read by optional-member syntax off a dynamic-key access    *)
(* (arr[i]?.x) or off a variable bound to one (v?.x) has no diagnostic at   *)
(* its subject.                                                             *)
C4_OptionalMemberNotReported ==
    Done => \A n \in Nodes : C4_OptionalRead(n) => ReportsAt(Object(n)) = 0

C4_Witness ==
    /\ Done
    /\ reports = <<>>
    /\ \E n \in Nodes : C4_OptionalRead(n) /\ IsTrackedUse(Object(n))

C5_OptionalCall(n) ==
    /\ Type(n) = "CallExpression"
    /\ N(n).optional
    /\ IsDynamicAccess(Callee(n)) \/ IsTrackedUse(Callee(n))

(* C5: a call by optional-call syntax of a dynamic-key access (arr[i]?.())   *)
(* or of a variable bound to one (v?.()) has no diagnostic at its subject.  *)
C5_OptionalCallNotReported ==
    Done => \A n \in Nodes : C5_OptionalCall(n) => ReportsAt(Callee(n)) = 0

-----------------------------------------------------------------------------
(* Subjects and the shapes of their checks, read off the syntax tree *)

\* e is another occurrence of the subject at u: the same variable name, or a
\* structurally identical access
Refers(e, u) == N(e) = N(u)

\* the access has an identity: a chain of identifiers, dot segments and
\* bracket segments keyed by a numeric literal or an identifier
RECURSIVE IsCanonicalChain(_)
IsCanonicalChain(n) ==
    \/ Type(n) = "Identifier"
    \/ /\ Type(n) = "MemberExpression"
       /\ IF N(n).computed
          THEN \/ Type(Property(n)) = "Literal" /\ N(Property(n)).lit = "number"
               \/ Type(Property(n)) = "Identifier"
          ELSE Type(Property(n)) = "Identifier"
       /\ IsCanonicalChain(Object(n))

\* a subject: a raw access with an identity, or a use of a tracked variable
IsSubject(u) ==
    \/ IsDynamicAccess(u) /\ IsCanonicalChain(u)
    \/ IsTrackedUse(u)

IsRawSubject(u) == IsDynamicAccess(u) /\ IsCanonicalChain(u)

\* S == null, S === null, S != null, S !== null, or the same with undefined
IsComparisonWithNull(t, u) ==
    /\ Type(t) = "BinaryExpression"
    /\ Name(t) \in {"!==", "!=", "===", "=="}
    /\ Refers(Left(t), u)
    /\ \/ Type(Right(t)) = "Literal" /\ N(Right(t)).lit = "null"
       \/ Type(Right(t)) = "Identifier" /\ Name(Right(t)) = "undefined"

IsNegationOf(t, u) ==
    Type(t) = "UnaryExpression" /\ Name(t) = "!" /\ Refers(Argument(t), u)

\* a truthiness test of S, a comparison of S with null or undefined, or a
\* conjunction containing such a check
RECURSIVE IsGuardTest(_, _)
IsGuardTest(t, u) ==
    \/ Refers(t, u)
    \/ IsComparisonWithNull(t, u)
    \/ /\ Type(t) = "LogicalExpression" /\ Name(t) = "&&"
       /\ IsGuardTest(Left(t), u) \/ IsGuardTest(Right(t), u)

\* a nullish check in the widest sense: also !S and disjunctions
RECURSIVE IsNullishCheck(_, _)
IsNullishCheck(t, u) ==
    \/ Refers(t, u)
    \/ IsNegationOf(t, u)
    \/ IsComparisonWithNull(t, u)
    \/ /\ Type(t) = "LogicalExpression" /\ Name(t) \in {"&&", "||"}
       /\ IsNullishCheck(Left(t), u) \/ IsNullishCheck(Right(t), u)

\* the test of an early exit: for a variable v == null, v === null, !v or
\* v == null || ...; for a raw access a comparison with null or undefined
IsExitTest(t, u) ==
    \/ IsComparisonWithNull(t, u)
    \/ /\ Type(u) = "Identifier"
       /\ \/ IsNegationOf(t, u)
          \/ /\ Type(t) = "LogicalExpression" /\ Name(t) = "||"
             /\ IsComparisonWithNull(Left(t), u) \/ IsNegationOf(Left(t), u)

\* the statement is, or is a block containing, a throw or a return
ExitsEarly(st) ==
    \/ Type(st) \in {"ThrowStatement", "ReturnStatement"}
    \/ /\ Type(st) = "BlockStatement"
       /\ \E i \in 1..NumKids(st) :
             Type(Kid(st, i)) \in {"ThrowStatement", "ReturnStatement"}

IsAssignmentTo(st, u) ==
    /\ Type(st) = "ExpressionStatement"
    /\ Type(Kid(st, 1)) = "AssignmentExpression"
    /\ Refers(Left(Kid(st, 1)), u)

\* the statement is, or is a block containing, an assignment to S
AssignsTo(st, u) ==
    \/ IsAssignmentTo(st, u)
    \/ /\ Type(st) = "BlockStatement"
       /\ \E i \in 1..NumKids(st) : IsAssignmentTo(Kid(st, i), u)

\* some node under st exits or assigns
ContainsExitOrAssignment(st) ==
    \E m \in Nodes :
        /\ isDescendant(st, m) \/ m = st
        /\ Type(m) \in {"ThrowStatement", "ReturnStatement", "AssignmentExpression"}

\* u is reported when nothing but the if statements before it could guard it
IsReportable(u) ==
    /\ IsUsed(u)
    /\ NoEnclosingGuard(u)
    /\ IsTrackedUse(u) \/ (IsDynamicAccess(u) /\ ~IsInitializer(u) /\ ~IsTypeExempt(u))

-----------------------------------------------------------------------------
C6_InGuardedBranch(u) ==
    /\ IsSubject(u)
    /\ \E f \in AncestorSet(u) :
          /\ Type(f) = "IfStatement"
          /\ isDescendant(Consequent(f), u)
          /\ IsGuardTest(Test(f), u)

(* C6: a use of a subject S (a tracked variable, or a raw access with an     *)
(* identity) inside the then-branch of an if whose test is a truthiness     *)
(* test of S, a comparison S !== / != / === / == null or undefined, or a    *)
(* conjunction containing such a check, has no diagnostic.                  *)
C6_GuardedBranchNotReported ==
    Done => \A u \in Nodes : C6_InGuardedBranch(u) => ReportsAt(u) = 0

C6_Witness ==
    /\ Done
    /\ reports = <<>>
    /\ \E u \in Nodes : C6_InGuardedBranch(u) /\ IsUsed(u) /\ IsRawSubject(u)
                        /\ ~IsTypeExempt(u)

C7_AfterGuardingIf(u) ==
    /\ IsSubject(u)
    /\ IsReportable(u)
    /\ PrecedingIfs(u) # {}
    /\ \A f \in PrecedingIfs(u) :
          /\ IsNullishCheck(Test(f), u)
          /\ ~ContainsExitOrAssignment(f)

(* C7: a use of a subject placed after an if statement that checks the       *)
(* subject but neither exits nor assigns, outside its block and under no    *)
(* other guard, has exactly one diagnostic, anchored at the identifier of   *)
(* the use for a variable and at the access for a raw access.               *)
C7_UseAfterIfReportedOnce ==
    Done => \A u \in Nodes : C7_AfterGuardingIf(u) => ReportsAt(u) = 1

C7_Witness ==
    /\ Done
    /\ Len(reports) = 1
    /\ \E u \in Nodes : C7_AfterGuardingIf(u) /\ IsTrackedUse(u) /\ ReportsAt(u) = 1

C8_AfterEarlyExit(u) ==
    /\ IsSubject(u)
    /\ \E f \in PrecedingIfs(u) :
          /\ IsExitTest(Test(f), u)
          /\ ExitsEarly(Consequent(f))

(* C8: when an if statement before the statement of a use, in the same       *)
(* statement list, tests the subject for null (a variable by v == null,     *)
(* v === null, !v or v == null || ..., a raw access with an identity by a   *)
(* comparison with null or undefined) and its consequent is, or is a block  *)
(* containing, a throw or a return, the use has no diagnostic.              *)
C8_EarlyExitNotReported ==
    Done => \A u \in Nodes : C8_AfterEarlyExit(u) => ReportsAt(u) = 0

C8_Witness ==
    /\ Done
    /\ reports = <<>>
    /\ \E u \in Nodes :
          /\ C8_AfterEarlyExit(u) /\ IsReportable(u) /\ IsTrackedUse(u)
          /\ \E f \in PrecedingIfs(u) : Type(Consequent(f)) = "ReturnStatement"

C9_AfterInitialization(u) ==
    /\ IsRawSubject(u)
    /\ \E f \in PrecedingIfs(u) :
          /\ IsNegationOf(Test(f), u)
          /\ AssignsTo(Consequent(f), u)

C9_AfterFalsyCheckOnly(u) ==
    /\ IsRawSubject(u)
    /\ IsReportable(u)
    /\ PrecedingIfs(u) # {}
    /\ \A f \in PrecedingIfs(u) :
          /\ IsNegationOf(Test(f), u)
          /\ ~ContainsExitOrAssignment(f)

(* C9: when an if (!S) before the statement of a use of the raw access S,    *)
(* in the same statement list, has a consequent that is, or is a block      *)
(* containing, an assignment to an access identical to S, the use has no    *)
(* diagnostic; when the only ifs before it are if (!S) without assignment   *)
(* or exit, the otherwise unguarded use has exactly one.                    *)
C9_LazyInitialization ==
    Done => \A u \in Nodes :
                /\ C9_AfterInitialization(u) => ReportsAt(u) = 0
                /\ C9_AfterFalsyCheckOnly(u) => ReportsAt(u) = 1

C9_Witness ==
    /\ Done
    /\ reports = <<>>
    /\ \E u \in Nodes : C9_AfterInitialization(u) /\ IsReportable(u)

RECURSIVE IsDotChain(_)
IsDotChain(n) ==
    \/ Type(n) = "Identifier"
    \/ /\ Type(n) = "MemberExpression" /\ ~N(n).computed
       /\ Type(Property(n)) = "Identifier"
       /\ IsDotChain(Object(n))

IsLengthBound(t, n) ==
    /\ Type(t) = "BinaryExpression" /\ Name(t) = "<"
    /\ Refers(Left(t), Property(n))
    /\ Type(Right(t)) = "MemberExpression" /\ ~N(Right(t)).computed
    /\ Name(Property(Right(t))) = "length"
    /\ Refers(Object(Right(t)), Object(n))

C10_InBoundedLoop(n) ==
    /\ Type(n) = "MemberExpression" /\ N(n).computed
    /\ Type(Property(n)) = "Identifier"
    /\ IsDotChain(Object(n))
    /\ \E f \in AncestorSet(n) :
          Type(f) = "ForStatement" /\ IsLengthBound(Kid(f, 2), n)

(* C10: inside a for statement whose test is i < A.length, an access A[i]    *)
(* whose object A is an identifier or a dot chain identical to the A of the *)
(* test has no diagnostic, whatever chain of property reads or call         *)
(* follows it.                                                              *)
C10_LoopBoundNotReported ==
    Done => \A n \in Nodes : C10_InBoundedLoop(n) => ReportsAt(n) = 0

C10_Witness ==
    /\ Done
    /\ reports = <<>>
    /\ services = "none"
    /\ \E n \in Nodes : /\ C10_InBoundedLoop(n) /\ IsObjectOfRead(n)
                        /\ IsObjectOfRead(Parent(n))
                        /\ Type(Object(n)) = "MemberExpression"

-----------------------------------------------------------------------------
IsFunction(f) == Type(f) \in {"FunctionDeclaration", "ArrowFunctionExpression"}

ParameterOf(f) == IF Type(f) = "FunctionDeclaration" THEN Kid(f, 2) ELSE Kid(f, 1)

\* u names a parameter of an enclosing function f: no scope between u and f
\* declares the name again
IsParameterUse(u, f) ==
    /\ Type(u) = "Identifier"
    /\ f \in AncestorSet(u)
    /\ IsFunction(f)
    /\ Name(ParameterOf(f)) = Name(u)
    /\ u # ParameterOf(f)
    /\ \A s \in AncestorSet(u) :
          (Len(s) > Len(f) /\ IsScopeNode(s)) => ScopeDefs(s, Name(u)) = {}

\* a tracked declarator of the same name outside the function f
ShadowedTracked(u, f) ==
    {d \in arrayIndexDeclarations :
        Name(DeclId(d)) = Name(u) /\ ~isDescendant(f, d) /\ Precedes(d, u)}

(* C11: a diagnostic anchored at an identifier implies that the nearest       *)
(* enclosing scope with a variable of that name declares it by a tracked    *)
(* declarator; and a property read or call on a parameter has no diagnostic *)
(* even when a variable of the same name outside the function is tracked.   *)
C11_LexicalResolution ==
    /\ \A i \in 1..Len(reports) :
          Type(reports[i].node) = "Identifier"
              => \E d \in BindingOf(reports[i].node) : d \in arrayIndexDeclarations
    /\ \A u \in Nodes : \A f \in AncestorSet(u) :
          (IsParameterUse(u, f) /\ IsUsed(u)) => ReportsAt(u) = 0

C11_Witness ==
    /\ Done
    /\ \E u \in Nodes : \E f \in AncestorSet(u) :
          /\ IsParameterUse(u, f) /\ IsUsed(u)
          /\ ShadowedTracked(u, f) # {}
          /\ ReportsAt(u) = 0

-----------------------------------------------------------------------------
\* a key type drawn from a finite key set and not numeric: an enum, a
\* string-valued enum member, a union of string or enum literals, or a type
\* parameter bounded by such a union (keyof of a keyed type)
IsEnumerableKeyType(type) ==
    \/ type.kind \in {"enum", "enumlit"}
    \/ /\ type.kind = "union"
       /\ \A i \in 1..Len(type.parts) : type.parts[i].kind \in {"strlit", "enumlit"}
    \/ /\ type.kind = "typeparam"
       /\ type.parts[1].kind = "union"
       /\ \A i \in 1..Len(type.parts[1].parts) :
             type.parts[1].parts[i].kind \in {"strlit", "enumlit"}

\* O[k] with k an identifier of such a type and O an identifier that is no
\* array and no tuple
C12_KeyedAccess(n) ==
    /\ Type(n) = "MemberExpression"
    /\ N(n).computed
    /\ Type(Property(n)) = "Identifier"
    /\ IsEnumerableKeyType(TypeEnv(Name(Property(n))))
    /\ Type(Object(n)) = "Identifier"
    /\ TypeEnv(Name(Object(n))).kind \notin {"array", "tuple"}

\* a use, under no guard, of O[k] itself
C12_AccessUse(n) ==
    C12_KeyedAccess(n) /\ IsUsed(n) /\ ~IsInitializer(n) /\ FullyUnguarded(n)

\* a use, under no guard, of a variable initialised from O[k] before it
C12_VariableUse(u) ==
    /\ Type(u) = "Identifier"
    /\ IsUsed(u)
    /\ FullyUnguarded(u)
    /\ \E d \in BindingOf(u) :
          /\ Type(DeclId(d)) = "Identifier" /\ NumKids(d) = 2
          /\ C12_KeyedAccess(DeclInit(d)) /\ Precedes(d, u)

(* C12: with type information, an unguarded O[k].x or O[k]() whose key type  *)
(* is an enum, a union of string or enum literals or a type parameter       *)
(* bounded by one, O being no array or tuple, has no diagnostic, the        *)
(* declarator of a variable initialised from O[k] is not tracked and the    *)
(* uses of that variable have no diagnostic; the same file linted without   *)
(* type information has exactly one diagnostic at each such use.            *)
C12_TypeAwareAsymmetry ==
    Done =>
        /\ \A n \in Nodes : C12_AccessUse(n) =>
              /\ services = "typed" => ReportsAt(n) = 0
              /\ services = "none" => ReportsAt(n) = 1
        /\ \A u \in Nodes : C12_VariableUse(u) =>
              /\ services = "typed" =>
                    /\ ReportsAt(u) = 0
                    /\ BindingOf(u) \cap arrayIndexDeclarations = {}
              /\ services = "none" => ReportsAt(u) = 1

C12_Witness ==
    /\ Done
    /\ services = "typed"
    /\ reports = <<>>
    /\ \E u \in Nodes :
          /\ C12_VariableUse(u)
          /\ TypeEnv(Name(Property(DeclInit(CHOOSE d \in BindingOf(u) : TRUE)))).kind
                = "typeparam"

-----------------------------------------------------------------------------
\* the type capability failed: absent, or getting it throws, or its queries
\* throw
OracleFails(h) == h \in {"absent", "throws", "faulty"}

\* the other rule context is a finished syntax-only pass over the same file
OtherIsSyntaxOnlyPass ==
    /\ other.ast = ast
    /\ other.host = "absent"
    /\ other.cur = NoNode

(* C13: no listener ever ends by an exception; when the type capability is   *)
(* absent, or getting it throws, or its queries throw, isSafeKeyAccess is   *)
(* false for every access of the file, and the diagnostics of the finished  *)
(* pass are those of a pass over the same file with no type capability.     *)
C13_OracleFailureContained ==
    /\ phase # "crashed"
    /\ other.phase # "crashed"
    /\ OracleFails(host) =>
          /\ \A n \in Nodes :
                Type(n) = "MemberExpression" => ~isSafeKeyAccess(n, services)
          /\ (Done /\ OtherIsSyntaxOnlyPass) => reports = other.reports

C13_Witness ==
    /\ Done
    /\ host = "faulty"
    /\ OtherIsSyntaxOnlyPass
    /\ \E n \in Nodes : C12_KeyedAccess(n) /\ IsUsed(n) /\ ReportsAt(n) = 1
    /\ reports = other.reports

-----------------------------------------------------------------------------
\* the other rule context is at the same point of a pass over the same file
\* with the same services
OtherAtSamePoint ==
    /\ other.ast = ast
    /\ other.services = services
    /\ other.cur = cur
    /\ other.phase = phase

(* C16: two passes over the same file with the same services, however they   *)
(* are interleaved and whatever files their rule contexts have linted       *)
(* before, have reported the same sequence of diagnostics and track the     *)
(* same declarators at every common point, so at the end too; and a pass    *)
(* starts with an empty tracked set and no diagnostics.                     *)
C16_DeterministicPerFile ==
    /\ OtherAtSamePoint =>
          /\ reports = other.reports
          /\ arrayIndexDeclarations = other.arrayIndexDeclarations
    /\ (cur = Root /\ phase = "node") =>
          arrayIndexDeclarations = {} /\ reports = <<>>

C16_Witness ==
    /\ Done
    /\ OtherAtSamePoint
    /\ linted = 2
    /\ other.linted = 1
    /\ reports # <<>>
    /\ reports = other.reports

-----------------------------------------------------------------------------
\* u is a use of a subject in the right operand, or below it, of a logical
\* AND whose left operand is that subject
C14_InAndRight(u) ==
    /\ IsSubject(u)
    /\ IsUsed(u)
    /\ \E l \in AncestorSet(u) :
          /\ Type(l) = "LogicalExpression"
          /\ Name(l) = "&&"
          /\ Refers(Left(l), u)
          /\ isDescendant(Right(l), u)

(* C14: a use of a subject S, a tracked variable or a raw access with an     *)
(* identity, that is the right operand of a logical AND whose left operand  *)
(* is S, or lies below that right operand, has no diagnostic.               *)
C14_AndRightNotReported ==
    Done => \A u \in Nodes : C14_InAndRight(u) => ReportsAt(u) = 0

-----------------------------------------------------------------------------
\* u lies in the child at position i of the conditional expression c
InBranch(u, c, i) ==
    /\ c \in AncestorSet(u)
    /\ Type(c) = "ConditionalExpression"
    /\ Kid(c, i) = u \/ isDescendant(Kid(c, i), u)

\* a use of a subject in the test or the consequent of a conditional
C15_InTestOrConsequent(u) ==
    /\ IsDynamicAccess(u) \/ IsTrackedUse(u)
    /\ IsUsed(u)
    /\ \E c \in AncestorSet(u) : InBranch(u, c, 1) \/ InBranch(u, c, 2)

\* a use of a subject in the alternate of a conditional, with no other
\* construct around it that could guard it
C15_InAlternateOnly(u) ==
    /\ IsUsed(u)
    /\ IsTrackedUse(u) \/ (IsDynamicAccess(u) /\ ~IsInitializer(u) /\ ~IsTypeExempt(u))
    /\ \E c \in AncestorSet(u) :
          /\ InBranch(u, c, 3)
          /\ \A a \in AncestorSet(u) \ {c} : Type(a) \notin GuardConstructs
    /\ ~N(Parent(u)).optional
    /\ PrecedingIfs(u) = {}

(* C15: a use of a subject, a dynamic-key access or a tracked variable, in   *)
(* the test or the consequent of a conditional expression has no            *)
(* diagnostic; a use in the alternate, with nothing else around it, has     *)
(* exactly one.                                                             *)
C15_TernaryBranchNotReported ==
    Done => \A u \in Nodes :
        /\ C15_InTestOrConsequent(u) => ReportsAt(u) = 0
        /\ C15_InAlternateOnly(u) => ReportsAt(u) = 1

-----------------------------------------------------------------------------
\* no occurrence of the subject at u stands in the expression t
Mentions(t, u) ==
    \E m \in Nodes : (m = t \/ isDescendant(t, m)) /\ Refers(m, u)

\* a raw access that is used, is exempt by no type, and has the construct g
\* as the only guarding construct around it, with no if statement before it
C20_RawUseUnder(u, g) ==
    /\ IsDynamicAccess(u)
    /\ IsUsed(u)
    /\ ~IsInitializer(u)
    /\ ~IsTypeExempt(u)
    /\ g \in AncestorSet(u)
    /\ \A a \in AncestorSet(u) \ {g} : Type(a) \notin GuardConstructs
    /\ ~N(Parent(u)).optional
    /\ PrecedingIfs(u) = {}

\* S.x in the consequent of an if whose test does not mention S
C20_UnderUnrelatedIf(u) ==
    \E g \in AncestorSet(u) :
        /\ C20_RawUseUnder(u, g)
        /\ Type(g) = "IfStatement"
        /\ isDescendant(Consequent(g), u)
        /\ ~Mentions(Test(g), u)

\* S.x in the else-branch of if (S)
C20_InElseBranch(u) ==
    \E g \in AncestorSet(u) :
        /\ C20_RawUseUnder(u, g)
        /\ Type(g) = "IfStatement"
        /\ NumKids(g) = 3
        /\ isDescendant(Kid(g, 3), u)
        /\ Refers(Test(g), u)

\* S.x right of a logical AND whose left operand does not mention S
C20_RightOfUnrelatedAnd(u) ==
    \E g \in AncestorSet(u) :
        /\ C20_RawUseUnder(u, g)
        /\ Type(g) = "LogicalExpression"
        /\ Name(g) = "&&"
        /\ isDescendant(Right(g), u)
        /\ ~Mentions(Left(g), u)

(* C20: a raw dynamic-key access that is the object of a property read or    *)
(* the callee of a call has exactly one diagnostic when the only construct  *)
(* around it is an if whose test does not mention it, or the else-branch of *)
(* an if that tests it, or a logical AND whose left operand does not        *)
(* mention it.                                                              *)
C20_NoOverSuppression ==
    Done => \A u \in Nodes :
        (C20_UnderUnrelatedIf(u) \/ C20_InElseBranch(u) \/ C20_RightOfUnrelatedAnd(u))
            => ReportsAt(u) = 1

-----------------------------------------------------------------------------
\* the number of diagnostics with the message anchored at node n
ReportsWith(n, messageId) ==
    Cardinality({i \in 1..Len(reports) : reports[i] = [node |-> n, messageId |-> messageId]})

StartsWith(s, prefix) ==
    Len(prefix) <= Len(s) /\ SubSeq(s, 1, Len(prefix)) = prefix

EndsWith(s, suffix) ==
    Len(suffix) <= Len(s) /\ SubSeq(s, Len(s) - Len(suffix) + 1, Len(s)) = suffix

\* the part of the file name after its last "/"
LastSegment(path) ==
    LET slashes == {i \in 1..Len(path) : Char(path, i) = "/"}
    IN  IF slashes = {} THEN path
        ELSE SubSeq(path, (CHOOSE i \in slashes : \A j \in slashes : j <= i) + 1, Len(path))

\* the file is one the rule is aimed at: its base name ends as the pattern says
IsTargetFile ==
    \/ options.targetFilePattern = "\\.repository\\.ts$"
          /\ EndsWith(LastSegment(filename), ".repository.ts")
    \/ options.targetFilePattern = "\\.service\\.ts$"
          /\ EndsWith(LastSegment(filename), ".service.ts")

\* a member of kind method with an identifier key that starts with none of
\* the allowed prefixes
C17_Violates(m) ==
    /\ Type(m) = "MethodDefinition"
    /\ Name(m) = "method"
    /\ Type(Key(m)) = "Identifier"
    /\ \A k \in 1..Len(options.allowPrefixes) :
          ~StartsWith(Name(Key(m)), options.allowPrefixes[k])

(* C17: when repository-method-prefix has linted a class file, a member has  *)
(* one diagnostic issue:violate if the base name of the file matches        *)
(* targetFilePattern and the member is of kind method with an identifier    *)
(* key that starts, case-sensitively, with none of allowPrefixes, and none  *)
(* otherwise; there is no other diagnostic.                                 *)
C17_PrefixViolationsReported ==
    (rule = "repository-method-prefix" /\ Done) =>
        /\ \A m \in Nodes :
              ReportsWith(m, "issue:violate") =
                  IF IsTargetFile /\ C17_Violates(m) THEN 1 ELSE 0
        /\ \A i \in 1..Len(reports) : reports[i].messageId = "issue:violate"

-----------------------------------------------------------------------------
\* the decorators of the method m that are calls of an identifier with one
\* of the names
CallDecorators(m, names) ==
    {Kid(m, i) : i \in {j \in 2..NumKids(m) : IsCallDecorator(Kid(m, j), names)}}

IsMethod(m) == Type(m) = "MethodDefinition"

\* a method carrying @Get(...), @Post(...), @Delete(...), @Patch(...) or
\* @Put(...)
IsEndpoint(m) ==
    IsMethod(m) /\ CallDecorators(m, {"Get", "Post", "Delete", "Patch", "Put"}) # {}

\* all the diagnostics anchored at n
AllReportsAt(n) == Cardinality({i \in 1..Len(reports) : reports[i].node = n})

(* C18: when use-api-operation has linted a class file, an endpoint method   *)
(* with no call-decorator named ApiOperation has exactly one diagnostic,    *)
(* issue:not-exist, and a method that is no endpoint has none.              *)
C18_MissingApiOperationReported ==
    (rule = "use-api-operation" /\ Done) =>
        \A m \in Nodes :
            /\ (IsEndpoint(m) /\ CallDecorators(m, {"ApiOperation"}) = {}) =>
                  /\ ReportsWith(m, "issue:not-exist") = 1
                  /\ AllReportsAt(m) = 1
            /\ (IsMethod(m) /\ ~IsEndpoint(m)) => AllReportsAt(m) = 0

C18_Witness ==
    /\ rule = "use-api-operation"
    /\ Done
    /\ \E m \in Nodes :
          /\ IsEndpoint(m)
          /\ NumKids(m) = 3
          /\ CallDecorators(m, {"ApiOperation"}) = {}
          /\ ReportsWith(m, "issue:not-exist") = 1

\* some property called name is written in the @ApiOperation(...) annotation
\* of the method m
AnnotationHasProperty(m, name) ==
    \E d \in CallDecorators(m, {"ApiOperation"}) : \E q \in Nodes :
        /\ isDescendant(d, q)
        /\ Type(q) = "Property"
        /\ Name(Key(q)) = name

C19_Annotated(m) == IsEndpoint(m) /\ CallDecorators(m, {"ApiOperation"}) # {}

(* C19: when use-api-operation has linted a class file, an endpoint method   *)
(* with an @ApiOperation annotation that has no summary property has a      *)
(* diagnostic issue:summary-not-exist if shouldBeSummary is true, one that  *)
(* has no description property has a diagnostic issue:desc-not-exist if     *)
(* shouldBeDescription is true, and an option that is false leaves its      *)
(* message unreported.                                                      *)
C19_MissingPropertiesReported ==
    (rule = "use-api-operation" /\ Done) =>
        /\ \A m \in Nodes : C19_Annotated(m) =>
              /\ (options.shouldBeSummary /\ ~AnnotationHasProperty(m, "summary"))
                    => ReportsWith(m, "issue:summary-not-exist") >= 1
              /\ (options.shouldBeDescription /\ ~AnnotationHasProperty(m, "description"))
                    => ReportsWith(m, "issue:desc-not-exist") >= 1
        /\ \A i \in 1..Len(reports) :
              /\ ~options.shouldBeSummary => reports[i].messageId # "issue:summary-not-exist"
              /\ ~options.shouldBeDescription => reports[i].messageId # "issue:desc-not-exist"

-----------------------------------------------------------------------------
\* a negation of S, or a disjunction with a side that is a nullish check of S
IsNegationOrDisjunction(t, u) ==
    \/ IsNegationOf(t, u)
    \/ /\ Type(t) = "LogicalExpression" /\ Name(t) = "||"
       /\ IsNullishCheck(Left(t), u) \/ IsNullishCheck(Right(t), u)

C21_AfterExitOn(u) ==
    \E f \in PrecedingIfs(u) :
        /\ IsNegationOrDisjunction(Test(f), u)
        /\ ExitsEarly(Consequent(f))

(* C21: the raw form recognises the nullish-check shapes of the variable     *)
(* form: a use of a raw access S with an identity, placed after an          *)
(* if (!S) or an if (S == null || c) of the same statement list whose       *)
(* consequent is, or is a block containing, a throw or a return, has no     *)
(* diagnostic, as the same use of a bound variable has none.                *)
C21_RawFormRecognisesSameShapes ==
    Done => \A u \in Nodes :
                (IsSubject(u) /\ C21_AfterExitOn(u)) => ReportsAt(u) = 0


-----------------------------------------------------------------------------
\* u is part of the statement st
IsPartOf(u, st) == u = st \/ isDescendant(st, u)

\* an early exit on the subject u stands before the statement of the same
\* statement list that u is part of, at whatever depth
C22_InRemainderOfBlock(u) ==
    \E f \in Nodes :
        /\ Type(f) = "IfStatement"
        /\ HasParent(f) /\ Type(Parent(f)) \in {"BlockStatement", "Program"}
        /\ IsComparisonWithNull(Test(f), u)
        /\ ExitsEarly(Consequent(f))
        /\ \E i \in 1..NumKids(Parent(f)) :
              /\ IndexInParent(f) < i
              /\ IsPartOf(u, Kid(Parent(f), i))

\* the statement after the exit holds u inside a block of its own
C22_Nested(u) ==
    /\ C22_InRemainderOfBlock(u)
    /\ PrecedingIfs(u) = {}

(* C22: after if (S == null) throw/return in a statement list, every later   *)
(* use of the subject S in that list has no diagnostic, also when the use   *)
(* stands inside an inner block, a loop body, an unrelated if or a function *)
(* body of a later statement.                                               *)
C22_NarrowingLastsForBlock ==
    Done => \A u \in Nodes :
                (IsSubject(u) /\ C22_InRemainderOfBlock(u)) => ReportsAt(u) = 0


-----------------------------------------------------------------------------
IsLengthOf(e, n) ==
    /\ Type(e) = "MemberExpression" /\ ~N(e).computed
    /\ Name(Property(e)) = "length"
    /\ Refers(Object(e), Object(n))

\* the test is i < A.length or i <= A.length - 1 for the access n = A[i]
IsExactBound(t, n) ==
    /\ Type(t) = "BinaryExpression"
    /\ Type(Property(n)) = "Identifier"
    /\ Refers(Left(t), Property(n))
    /\ \/ Name(t) = "<" /\ IsLengthOf(Right(t), n)
       \/ /\ Name(t) = "<="
          /\ Type(Right(t)) = "BinaryExpression" /\ Name(Right(t)) = "-"
          /\ IsLengthOf(Left(Right(t)), n)
          /\ Type(Right(Right(t))) = "Literal" /\ Name(Right(Right(t))) = "1"

C23_ExactlyBounded(n) ==
    \E f \in AncestorSet(n) : Type(f) = "ForStatement" /\ IsExactBound(Kid(f, 2), n)

\* a used access in a for statement with nothing else that could guard it
C23_InLoopOnly(n) ==
    /\ IsDynamicAccess(n) /\ IsUsed(n) /\ ~IsInitializer(n) /\ ~IsTypeExempt(n)
    /\ \E f \in AncestorSet(n) : Type(f) = "ForStatement"
    /\ \A a \in AncestorSet(n) : Type(a) \notin (GuardConstructs \ {"ForStatement"})
    /\ ~N(Parent(n)).optional
    /\ PrecedingIfs(n) = {}

(* C23: an access in a for statement, with nothing else around it that      *)
(* could guard it, has no diagnostic when the test of an enclosing for is   *)
(* i < A.length or i <= A.length - 1 with i the key and A the object of the *)
(* access, and exactly one diagnostic for every other test, such as         *)
(* i <= A.length, i < A.length - 2 or a bound on another array.             *)
C23_LoopBoundExact ==
    Done => \A n \in Nodes :
                C23_InLoopOnly(n) =>
                    ReportsAt(n) = IF C23_ExactlyBounded(n) THEN 0 ELSE 1


-----------------------------------------------------------------------------
\* the static type of the object is an array or a tuple, or that of the key
\* is number or a numeric literal type (a numeric enum member is one)
C24_NumericIndexing(n) ==
    /\ Type(n) = "MemberExpression" /\ N(n).computed
    /\ Type(Property(n)) = "Identifier"
    /\ Type(Object(n)) = "Identifier"
    /\ \/ TypeEnv(Name(Object(n))).kind \in {"array", "tuple"}
       \/ TypeEnv(Name(Property(n))).kind \in {"number", "numlit", "numenumlit"}

\* the key would be exempt by an exempting rule: an enum, a union of
\* literals, or a type parameter bounded by one
C24_KeyOfExemptingType(n) ==
    \/ IsEnumerableKeyType(TypeEnv(Name(Property(n))))
    \/ TypeEnv(Name(Property(n))).kind = "numenumlit"

(* C24: with type information, an access whose object is of array or tuple  *)
(* type, or whose key is of type number or of a numeric literal type, is    *)
(* never exempt, whatever exempting rule the key type would meet: used and  *)
(* unguarded it has exactly one diagnostic, and a declarator initialised    *)
(* from it is tracked. So an enum-typed or literal-union-typed key into an  *)
(* array or tuple, and a numeric enum member key, are not exempt.           *)
C24_NumericIndexingNeverExempt ==
    Done => \A n \in Nodes :
                C24_NumericIndexing(n) =>
                    /\ (IsUsed(n) /\ FullyUnguarded(n) /\ ~IsInitializer(n))
                          => ReportsAt(n) = 1
                    /\ IsInitializer(n) /\ Type(DeclId(Parent(n))) = "Identifier"
                          => Parent(n) \in arrayIndexDeclarations

C24_Witness ==
    /\ Done
    /\ services = "typed"
    /\ \E n \in Nodes :
          /\ C24_NumericIndexing(n) /\ C24_KeyOfExemptingType(n)
          /\ TypeEnv(Name(Object(n))).kind = "tuple"
          /\ IsUsed(n) /\ ReportsAt(n) = 1


-----------------------------------------------------------------------------
\* a use of a variable that stands before the declarator it is bound to
C25_UseBeforeDeclaration(u) ==
    /\ Type(u) = "Identifier"
    /\ IsUsed(u)
    /\ \E d \in BindingOf(u) : Precedes(u, d)

(* C25: a diagnostic anchored at a use of a variable is there only when the *)
(* declarator the variable is bound to was registered before the use was    *)
(* visited; a use that stands before its declaration has no diagnostic when *)
(* the pass is over, and the step that registers a declarator adds no       *)
(* diagnostic.                                                              *)
C25_DeclarationBeforeUse ==
    /\ [](/\ \A i \in 1..Len(reports) :
                Type(reports[i].node) = "Identifier" =>
                    \E d \in BindingOf(reports[i].node) :
                        d \in arrayIndexDeclarations /\ Precedes(d, reports[i].node)
          /\ Done => \A u \in Nodes : C25_UseBeforeDeclaration(u) => ReportsAt(u) = 0)
    /\ [][arrayIndexDeclarations' # arrayIndexDeclarations => reports' = reports]_vars

C25_Witness ==
    /\ Done
    /\ reports = <<>>
    /\ \E u \in Nodes :
          /\ C25_UseBeforeDeclaration(u)
          /\ FullyUnguarded(u)
          /\ \E d \in BindingOf(u) : d \in arrayIndexDeclarations


-----------------------------------------------------------------------------
\* the traversal has gone past the node d
IsVisited(d) == Done \/ Precedes(d, cur)

\* the declarators that should be tracked: a plain identifier as id and a
\* dynamic-key access, not exempt by its types, as initializer
C26_Trackable(d) ==
    /\ Type(d) = "VariableDeclarator"
    /\ Type(DeclId(d)) = "Identifier"
    /\ NumKids(d) = 2
    /\ IsDynamicAccess(DeclInit(d))
    /\ ~IsTypeExempt(DeclInit(d))

(* C26: at every point of the pass the tracked set is exactly the set of    *)
(* declarators already visited whose id is a plain identifier and whose     *)
(* initializer is a dynamic-key access that the oracle does not exempt;     *)
(* guards around the initializer and later assignments to the variable      *)
(* change nothing.                                                          *)
C26_TrackedBindings ==
    arrayIndexDeclarations = {d \in Nodes : C26_Trackable(d) /\ IsVisited(d)}

C26_Witness ==
    /\ ~Done
    /\ \E d \in arrayIndexDeclarations : isInsideSafeForLoop(DeclInit(d))
    /\ \E i \in 1..Len(reports) :
          Type(reports[i].node) = "Identifier" /\ Name(reports[i].node) = "v"


-----------------------------------------------------------------------------
\* the structure of an access: its root identifier, then its dot segments
\* and bracket segments with the identifier name or the literal value of
\* each
RECURSIVE Segments(_)
Segments(n) ==
    IF Type(n) = "Identifier" THEN <<[kind |-> "root", key |-> Name(n)]>>
    ELSE IF ~N(n).computed
    THEN Segments(Object(n)) \o <<[kind |-> "dot", key |-> Name(Property(n))]>>
    ELSE IF Type(Property(n)) = "Identifier"
    THEN Segments(Object(n)) \o <<[kind |-> "identifier", key |-> Name(Property(n))]>>
    ELSE Segments(Object(n))
            \o <<[kind |-> "literal", key |-> String(Value(Property(n)))]>>

HasIdentity(n) ==
    Type(n) = "MemberExpression" /\ getArrayIndexAccessKey(n) # null

\* an identifier key and a literal key that are written out alike
C27_KeysPrintAlike(a, b) ==
    /\ HasIdentity(a) /\ HasIdentity(b)
    /\ Type(Property(a)) = "Identifier" /\ Type(Property(b)) = "Literal"
    /\ Name(Property(a)) = String(Value(Property(b)))

(* C27: two accesses that both have an identity have equal identities if    *)
(* and only if they have the same structure: the same root identifier and   *)
(* the same sequence of dot and bracket segments with the same identifier   *)
(* names and literal keys; so accesses off differently named variables      *)
(* never share an identity.                                                 *)
C27_IdentityInjective ==
    \A a, b \in Nodes :
        (HasIdentity(a) /\ HasIdentity(b)) =>
            /\ (getArrayIndexAccessKey(a) = getArrayIndexAccessKey(b))
                  <=> (Segments(a) = Segments(b))
            /\ Segments(a)[1] # Segments(b)[1]
                  => getArrayIndexAccessKey(a) # getArrayIndexAccessKey(b)


-----------------------------------------------------------------------------
\* a dynamic-key access without identity: a binary-expression key, or a
\* segment of the chain that has no canonical text
C28_NoIdentity(n) == IsDynamicAccess(n) /\ ~IsCanonicalChain(n)

C28_InBranchOnItself(u) ==
    \E f \in AncestorSet(u) :
        /\ Type(f) = "IfStatement"
        /\ isDescendant(Consequent(f), u)
        /\ IsGuardTest(Test(f), u)

C28_InAndOnItself(u) ==
    \E l \in AncestorSet(u) :
        /\ Type(l) = "LogicalExpression" /\ Name(l) = "&&"
        /\ IsGuardTest(Left(l), u)
        /\ IsPartOf(u, Right(l))

C28_AfterSiblingOnItself(u) ==
    /\ NoEnclosingGuard(u)
    /\ \E f \in PrecedingIfs(u) :
          \/ IsComparisonWithNull(Test(f), u) /\ ExitsEarly(Consequent(f))
          \/ IsNegationOf(Test(f), u) /\ AssignsTo(Consequent(f), u)

\* a use of a variable initialised from an access without identity
C28_BoundToNoIdentity(u) ==
    /\ Type(u) = "Identifier"
    /\ \E d \in BindingOf(u) :
          /\ Type(DeclId(d)) = "Identifier" /\ NumKids(d) = 2
          /\ C28_NoIdentity(DeclInit(d)) /\ Precedes(d, u)

(* C28: an access without identity has nothing from the guards that match   *)
(* by identity: used in the branch of an if on itself, on the right of an   *)
(* && on itself, or after an early exit or a lazy initialization on itself, *)
(* it has exactly one diagnostic; a variable initialised from it is tracked *)
(* all the same, and its uses are guarded by the variable forms.            *)
C28_NoIdentityNoGuard ==
    Done => \A u \in Nodes :
                /\ (/\ C28_NoIdentity(u) /\ IsUsed(u) /\ ~IsInitializer(u)
                    /\ \/ C28_InBranchOnItself(u)
                       \/ C28_InAndOnItself(u)
                       \/ C28_AfterSiblingOnItself(u))
                      => ReportsAt(u) = 1
                /\ C28_BoundToNoIdentity(u) =>
                      /\ IsTrackedUse(u)
                      /\ C6_InGuardedBranch(u) \/ C8_AfterEarlyExit(u) => ReportsAt(u) = 0
                      /\ C2_UnguardedVariableUse(u) \/ C7_AfterGuardingIf(u) => ReportsAt(u) = 1


-----------------------------------------------------------------------------
\* the shapes of a nullish check of the variable called name: name, !name,
\* name compared with null or undefined by ==, ===, != or !==, or an && or
\* || with such a side
RECURSIVE C29_Shape(_, _)
C29_Shape(t, name) ==
    \/ Type(t) = "Identifier" /\ Name(t) = name
    \/ /\ Type(t) = "UnaryExpression" /\ Name(t) = "!"
       /\ Type(Argument(t)) = "Identifier" /\ Name(Argument(t)) = name
    \/ /\ Type(t) = "BinaryExpression" /\ Name(t) \in {"==", "===", "!=", "!=="}
       /\ Type(Left(t)) = "Identifier" /\ Name(Left(t)) = name
       /\ \/ Type(Right(t)) = "Literal" /\ N(Right(t)).lit = "null"
          \/ Type(Right(t)) = "Identifier" /\ Name(Right(t)) = "undefined"
    \/ /\ Type(t) = "LogicalExpression" /\ Name(t) \in {"&&", "||"}
       /\ C29_Shape(Left(t), name) \/ C29_Shape(Right(t), name)

C29_InBranch(u) ==
    \E f \in AncestorSet(u) :
        /\ Type(f) = "IfStatement"
        /\ isDescendant(Consequent(f), u)
        /\ C29_Shape(Test(f), Name(u))

C29_AfterExit(u) ==
    \E f \in PrecedingIfs(u) :
        C29_Shape(Test(f), Name(u)) /\ ExitsEarly(Consequent(f))

(* C29: checksForNullish(test, v) is true exactly for the tests v, !v, v     *)
(* compared with null or undefined by ==, ===, != or !==, and the && and || *)
(* expressions with at least one such side, whatever the polarity; so a use *)
(* of a tracked variable in the then-branch of an if with such a test, and  *)
(* a use after an if with such a test that exits, have no diagnostic.       *)
C29_PermissiveNullishCheck ==
    /\ \A t \in Nodes : \A name \in {"v", "w"} :
          checksForNullish(t, name) <=> C29_Shape(t, name)
    /\ Done => \A u \in Nodes :
                  (IsTrackedUse(u) /\ (C29_InBranch(u) \/ C29_AfterExit(u)))
                      => ReportsAt(u) = 0

C29_Witness ==
    /\ Done
    /\ reports = <<>>
    /\ \E u \in Nodes :
          /\ IsTrackedUse(u) /\ IsUsed(u)
          /\ \E f \in PrecedingIfs(u) :
                /\ Type(Test(f)) = "LogicalExpression" /\ Name(Test(f)) = "||"
                /\ IsComparisonWithNull(Left(Test(f)), u)
                /\ ~C29_Shape(Right(Test(f)), Name(u))
                /\ ExitsEarly(Consequent(f))


-----------------------------------------------------------------------------
\* an early exit or a lazy initialization on the subject of u stands after
\* the statement of u in its statement list
C30_GuardComesLater(u) ==
    LET st == StatementOf(u)
    IN  \E i \in (IndexInParent(st) + 1)..NumKids(Parent(st)) :
            LET f == Kid(Parent(st), i)
            IN  /\ Type(f) = "IfStatement"
                /\ IsNullishCheck(Test(f), u)
                /\ ExitsEarly(Consequent(f)) \/ AssignsTo(Consequent(f), u)

(* C30: an early exit or a lazy initialization on a subject guards only the *)
(* uses whose statement comes after it in the statement list: a use whose   *)
(* statement comes before it, with nothing else to guard it, has exactly    *)
(* one diagnostic, while the same use after the guard has none.             *)
C30_SiblingOrder ==
    Done => \A u \in Nodes :
                (IsSubject(u) /\ IsReportable(u) /\ C30_GuardComesLater(u)
                    /\ PrecedingIfs(u) = {})
                    => ReportsAt(u) = 1

C30_Witness ==
    /\ Done
    /\ Len(reports) = 1
    /\ \E u, w \in Nodes :
          /\ IsTrackedUse(u) /\ IsReportable(u) /\ C30_GuardComesLater(u)
          /\ PrecedingIfs(u) = {} /\ ReportsAt(u) = 1
          /\ IsTrackedUse(w) /\ IsUsed(w) /\ C8_AfterEarlyExit(w) /\ ReportsAt(w) = 0


=============================================================================
